---------------------------- MODULE Spec2Model ----------------------------
(***************************************************************************)
(* Model of watchylib.py: the e-paper Display driver (mode flags, update   *)
(* sequence builder, refresh loop) and the LookupTable used by the         *)
(* accelerometer driver, and the Accelerometer register driver (reset,     *)
(* command protocol, config loader, validated setters).                    *)
(*                                                                         *)
(* Conventions: bytes are naturals 0..255; a Python bytes object is a      *)
(* sequence of naturals; a Python str is a sequence of one-character       *)
(* strings; frame delays are in milliseconds (0.2 s = 200, 5.0 s = 5000).  *)
(***************************************************************************)
EXTENDS Integers, Sequences, FiniteSets, TLC

VARIABLES
    disp,         \* the Display object of the running program; disp.display is
                  \* the displayio object it drives: the last arguments of
                  \* update_refresh_mode and the number of calls of it made by
                  \* the refresh() in progress
    pc,           \* "idle": no refresh() in progress; "retry": inside its loop
    busyLeft,     \* busy answers the controller still gives in this refresh()
    hwRefreshes,  \* successful display.refresh() calls of the latest refresh()
    firstPhase,   \* "pristine" until the first refresh() returns ("done") or a
                  \* caller writes initialRefresh before that ("tainted")
    pair,         \* two independent Display objects (PairSpec)
    lk,           \* one LookupTable call: its arguments and result (LookupSpec)
    acc           \* the Accelerometer object, the registers of its chip and the
                  \* bus traffic of its latest method call (AccSpec)

vars == <<disp, pc, busyLeft, hwRefreshes, firstPhase, pair, lk, acc>>

-----------------------------------------------------------------------------
(* Bounds of the model *)

\* largest number of transient "busy" answers of the controller in one refresh()
MaxBusy == 2
\* setWindow is called with the windows WindowArg(i), i in 0..MaxWinIdx
MaxWinIdx == 2
\* largest number of polls of the accelerometer's command-ready flag that the
\* chip answers "not ready" in one wait of _runCmd
MaxPolls == 1
\* config files have 0..MaxChunks chunks of 8 bytes, besides the lengths at
\* the edge of the feature window
MaxChunks == 2

-----------------------------------------------------------------------------
(* Display class constants *)

DELAY == 128
WIDTH == 200
HEIGHT == 200
X_OFFSET == 0
Y_OFFSET == 0

EVEN_FIRST == 0
NO_INTERLACE == 0
SCAN_FORWARD == 0
INTERNAL_SENSOR == 128

RED_DISABLE == 64
RED_INVERT == 128
BLACK_ENABLE == 0
BLACK_INVERT == 8

Y_FORWARDS == 2
X_FORWARDS == 1
RIGHT_THEN_DOWN == 0

U_CLOCK_ON == 128
U_ANALOG_ON == 64
U_LOAD_TEMP == 32
U_LOAD_LUT == 16
U_DISP_MODE_1 == 0
U_DISP_MODE_2 == 8
U_OUTPUT == 4
U_ANALOG_OFF == 2
U_CLOCK_OFF == 1
\* the flags are disjoint bits, so | is +
U_DISPLAY == U_OUTPUT + U_LOAD_LUT

SLOW_UPDATE_TIME == 5000
FAST_UPDATE_TIME == 200

GATE_SETTINGS == EVEN_FIRST + NO_INTERLACE + SCAN_FORWARD
ENTRY_MODE == X_FORWARDS + Y_FORWARDS + RIGHT_THEN_DOWN
SLOW_UPDATE == U_CLOCK_ON + U_ANALOG_ON + U_LOAD_TEMP + U_DISPLAY + U_DISP_MODE_1 + U_CLOCK_OFF + U_ANALOG_OFF
FAST_UPDATE == U_CLOCK_ON + U_ANALOG_ON + U_LOAD_TEMP + U_DISPLAY + U_DISP_MODE_2

CMD_GATE_SETTING == 1
CMD_ENTRY_MODE == 17
CMD_SOFT_RESET == 18
CMD_TEMP_SENSOR == 24
CMD_PANEL_COLOURS == 33
CMD_MASTER_ACTIVATE == 32
CMD_UPDATE_SEQUENCE == 34
CMD_BORDER_WAVEFORM == 60
CMD_X_WINDOW == 68
CMD_Y_WINDOW == 69
CMD_X_OFFSET == 78
CMD_Y_OFFSET == 79

\* x >> n and x & 0xFF on naturals
Shr(x, n) == x \div (2 ^ n)
Lo8(x) == x % 256

-----------------------------------------------------------------------------
(* Display: property getters *)

darkMode(d) == d._darkMode
greyMode(d) == d._greyMode
invertBorder(d) == d._invertBorder
fastRefresh(d) == d._fastRefresh
initialRefresh(d) == d._initialRefresh

\* a fullRefresh getter that forgets initialRefresh
fullRefreshStored(d) == d._fullRefresh
fullRefresh(d) == d._fullRefresh \/ initialRefresh(d)

(* Display: _updateColours and the property setters *)

_updateColours(d) ==
    [d EXCEPT
       !.COLOUR_MODE =
           IF darkMode(d)
             THEN (IF greyMode(d) THEN RED_INVERT + BLACK_ENABLE
                                  ELSE RED_DISABLE + BLACK_ENABLE)
             ELSE (IF greyMode(d) THEN RED_INVERT + BLACK_INVERT
                                  ELSE RED_DISABLE + BLACK_INVERT),
       !.BORDER_WAVEFORM = IF darkMode(d) # invertBorder(d) THEN 0 ELSE 1,
       !.modeChanged = TRUE]

\* a greyMode setter that does not recompute the colour bytes
greyModeSetStale(d, enabled) == [d EXCEPT !._greyMode = enabled, !.modeChanged = TRUE]

greyModeSet(d, enabled) == _updateColours([d EXCEPT !._greyMode = enabled])

\* a darkMode setter that does not recompute the colour bytes
darkModeSetStale(d, enabled) == [d EXCEPT !._darkMode = enabled, !.modeChanged = TRUE]

darkModeSet(d, enabled) == _updateColours([d EXCEPT !._darkMode = enabled])

invertBorderSet(d, enabled) == _updateColours([d EXCEPT !._invertBorder = enabled])

\* a fullRefresh setter that leaves the dirty flag alone
fullRefreshSetClean(d, enabled) == [d EXCEPT !._fullRefresh = enabled]

fullRefreshSet(d, enabled) ==
    [d EXCEPT !._fullRefresh = enabled, !.modeChanged = TRUE]

initialRefreshSet(d, enabled) ==
    [d EXCEPT !._initialRefresh = enabled, !.modeChanged = TRUE]

fastRefreshSet(d, enabled) ==
    [d EXCEPT !._fastRefresh = enabled,
              !.UPDATE_MODE = IF enabled THEN FAST_UPDATE ELSE SLOW_UPDATE,
              !.frameDelay = IF enabled THEN FAST_UPDATE_TIME ELSE SLOW_UPDATE_TIME,
              !.modeChanged = TRUE]

setWindow(d, x1, y1, x2, y2) ==
    [d EXCEPT !.FIRST_COLUMN = x1,
              !.LAST_COLUMN = x2,
              !.FIRST_ROW = y1,
              !.LAST_ROW = y2,
              !.X_WINDOW_START = Shr(x1, 8),
              !.X_WINDOW_END = Shr(x2, 8),
              !.Y_WINDOW_START = y1,
              !.Y_WINDOW_END = y2,
              !.modeChanged = TRUE]

clearWindow(d) == setWindow(d, 0, 0, WIDTH, HEIGHT)

-----------------------------------------------------------------------------
(* Display: _rebuildUpdateSequence *)

LutOverrideBlock == <<55, 10, 0, 255, 255, 255, 255, 15, 0, 0, 0, 0>>

GhostBlockLight == <<12, 4, 251, 137, 246, 15,
                     4, 3, 75, 240, 10,
                     3, 1, 18>>

GhostBlockDark == <<3, 1, 16,
                    4, 3, 75, 240, 10,
                    12, 4, 251, 137, 246, 53>>

\* a builder that takes the mode byte from the fastRefresh setting alone
updateModeOfStored(d) == d.UPDATE_MODE

\* the mode byte of the update-sequence-control command
updateModeOf(d) == IF initialRefresh(d) THEN SLOW_UPDATE ELSE d.UPDATE_MODE

\* a second pass that writes the panel-colour byte of the header again
altColourOfSame(d) == d.COLOUR_MODE

altColourOf(d) ==
    IF greyMode(d) THEN d.COLOUR_MODE
    ELSE IF darkMode(d) THEN RED_INVERT + BLACK_INVERT
    ELSE RED_INVERT + BLACK_ENABLE

SeqHeader(d) ==
    << CMD_SOFT_RESET, DELAY, 20,
       CMD_GATE_SETTING, 3, Lo8(WIDTH - 1), Lo8(Shr(WIDTH - 1, 8)), GATE_SETTINGS,
       CMD_BORDER_WAVEFORM, 1, d.BORDER_WAVEFORM,
       CMD_TEMP_SENSOR, 1, INTERNAL_SENSOR,
       CMD_PANEL_COLOURS, 2, d.COLOUR_MODE, 0,
       CMD_ENTRY_MODE, 1, ENTRY_MODE >>

SeqWindow(d) ==
    << CMD_X_WINDOW, 2, d.X_WINDOW_START, d.X_WINDOW_END,
       CMD_Y_WINDOW, 4, Lo8(d.Y_WINDOW_START), Lo8(Shr(d.Y_WINDOW_START, 8)),
                        Lo8(d.Y_WINDOW_END), Lo8(Shr(d.Y_WINDOW_END, 8)),
       CMD_X_OFFSET, 1, X_OFFSET,
       CMD_Y_OFFSET, 2, Lo8(Y_OFFSET), Lo8(Shr(Y_OFFSET, 8)),
       CMD_UPDATE_SEQUENCE, 1, updateModeOf(d) >>

SeqDoubleFlash(d) ==
    << CMD_PANEL_COLOURS, 2, altColourOf(d), 0,
       CMD_UPDATE_SEQUENCE, 1, updateModeOf(d),
       CMD_MASTER_ACTIVATE, 0,
       CMD_PANEL_COLOURS, 2, d.COLOUR_MODE, 0,
       CMD_UPDATE_SEQUENCE, 1, updateModeOf(d) >>

\* a builder that appends the ghost-suppression block before the LUT override
BuildSequenceGhostFirst(d) ==
    SeqHeader(d)
    \o (IF ~fullRefresh(d)
          THEN (IF ~darkMode(d) THEN GhostBlockLight ELSE GhostBlockDark)
          ELSE <<>>)
    \o (IF fastRefresh(d) /\ ~fullRefresh(d) THEN LutOverrideBlock ELSE <<>>)
    \o SeqWindow(d)
    \o (IF fastRefresh(d) /\ ~fullRefresh(d) THEN SeqDoubleFlash(d) ELSE <<>>)

\* the bytes assembled by _rebuildUpdateSequence
BuildSequence(d) ==
    SeqHeader(d)
    \o (IF fastRefresh(d) /\ ~fullRefresh(d) THEN LutOverrideBlock ELSE <<>>)
    \o (IF ~fullRefresh(d)
          THEN (IF ~darkMode(d) THEN GhostBlockLight ELSE GhostBlockDark)
          ELSE <<>>)
    \o SeqWindow(d)
    \o (IF fastRefresh(d) /\ ~fullRefresh(d) THEN SeqDoubleFlash(d) ELSE <<>>)

\* display.update_refresh_mode(start_sequence, seconds_per_frame) of displayio
update_refresh_mode(h, start_sequence, seconds_per_frame) ==
    [seq |-> start_sequence, delay |-> seconds_per_frame, calls |-> h.calls + 1]

\* the object after _rebuildUpdateSequence
_rebuildUpdateSequence(d) ==
    [d EXCEPT !.updateSequence = BuildSequence(d),
              !.display = update_refresh_mode(d.display, BuildSequence(d), d.frameDelay),
              !.modeChanged = FALSE]

-----------------------------------------------------------------------------
(* Display: the object after __init__ *)

ClassDefaults ==
    [ _darkMode |-> FALSE, _greyMode |-> FALSE, _invertBorder |-> FALSE,
      _fastRefresh |-> FALSE, _fullRefresh |-> FALSE, _initialRefresh |-> FALSE,
      COLOUR_MODE |-> RED_DISABLE + BLACK_INVERT,
      BORDER_WAVEFORM |-> 0,
      UPDATE_MODE |-> SLOW_UPDATE,
      frameDelay |-> 0,
      FIRST_COLUMN |-> X_OFFSET,
      LAST_COLUMN |-> X_OFFSET + WIDTH - 1,
      FIRST_ROW |-> Y_OFFSET,
      LAST_ROW |-> Y_OFFSET + HEIGHT - 1,
      X_WINDOW_START |-> Shr(X_OFFSET, 3),
      X_WINDOW_END |-> Shr(X_OFFSET + WIDTH - 1, 3),
      Y_WINDOW_START |-> Y_OFFSET,
      Y_WINDOW_END |-> Y_OFFSET + HEIGHT - 1,
      modeChanged |-> FALSE,
      updateSequence |-> <<>>,
      display |-> [seq |-> <<>>, delay |-> 0, calls |-> 0] ]

DisplayInit ==
    initialRefreshSet(
      [fastRefreshSet(_updateColours(ClassDefaults), TRUE) EXCEPT !._fullRefresh = FALSE],
      TRUE)

-----------------------------------------------------------------------------
(* Display: refresh() *)

\* the controller stays busy for ever
Forever == -1

BusyBudgets == (0..MaxBusy) \cup {Forever}

\* the windows (x1, y1, x2, y2) callers pass to setWindow: the whole panel,
\* then windows shrinking by a byte column on each side at every step and by
\* a row on each side at every second step
WindowArg(i) ==
    <<8 * i, i \div 2, (WIDTH - 1) - 8 * i, (HEIGHT - 1) - (i \div 2)>>

WindowArgs == { WindowArg(i) : i \in 0..MaxWinIdx }

\* "if self.modeChanged: self._rebuildUpdateSequence()"
refreshRebuild(d) == IF d.modeChanged THEN _rebuildUpdateSequence(d) ELSE d

\* refresh() that leaves initialRefresh as it is
refreshClearInitialNever(d) == d

\* refresh() that clears initialRefresh behind the setter's back
refreshClearInitialQuiet(d) == [d EXCEPT !._initialRefresh = FALSE]

\* "if self.initialRefresh: self.initialRefresh = False"
refreshClearInitial(d) == IF initialRefresh(d) THEN initialRefreshSet(d, FALSE) ELSE d

\* a retry loop that rebuilds the sequence on every pass
refreshRetryRebuild(d) == _rebuildUpdateSequence(d)

\* one pass of the retry loop that found the controller busy: nothing is rebuilt
refreshRetry(d) == d

\* bookkeeping: a refresh() starts and ends with its call count at zero
NoCalls(d) == [d EXCEPT !.display.calls = 0]

\* refresh() up to the first display.refresh() attempt
RefreshBegin ==
    /\ pc = "idle"
    /\ disp' = refreshRebuild(disp)
    /\ hwRefreshes' = 0
    /\ \E b \in BusyBudgets : busyLeft' = b
    /\ pc' = "retry"
    /\ UNCHANGED <<firstPhase, pair, lk, acc>>

\* a loop that gives up at the first busy answer and returns
RefreshBusyGiveUp ==
    /\ pc = "retry"
    /\ busyLeft # 0
    /\ pc' = "idle"
    /\ busyLeft' = 0
    /\ UNCHANGED <<disp, hwRefreshes, firstPhase, pair, lk, acc>>

\* display.refresh() raises RuntimeError: sleep 0.1 s and go round the loop
RefreshBusy ==
    /\ pc = "retry"
    /\ busyLeft # 0
    /\ busyLeft' = IF busyLeft = Forever THEN Forever ELSE busyLeft - 1
    /\ disp' = refreshRetry(disp)
    /\ disp'.display.calls <= 1
    /\ UNCHANGED <<pc, hwRefreshes, firstPhase, pair, lk, acc>>

\* display.refresh() succeeds: leave the loop, clear initialRefresh, return
RefreshSuccess ==
    /\ pc = "retry"
    /\ busyLeft = 0
    /\ hwRefreshes' = hwRefreshes + 1
    /\ disp' = NoCalls(refreshClearInitial(disp))
    /\ pc' = "idle"
    /\ firstPhase' = IF firstPhase = "pristine" THEN "done" ELSE firstPhase
    /\ UNCHANGED <<busyLeft, pair, lk, acc>>

RefreshAttempt == RefreshBusy \/ RefreshSuccess

(* Display: the caller's property writes and window calls between refreshes *)

SetDarkMode ==
    /\ pc = "idle"
    /\ \E v \in BOOLEAN : disp' = darkModeSet(disp, v)
    /\ UNCHANGED <<pc, busyLeft, hwRefreshes, firstPhase, pair, lk, acc>>

SetGreyMode ==
    /\ pc = "idle"
    /\ \E v \in BOOLEAN : disp' = greyModeSet(disp, v)
    /\ UNCHANGED <<pc, busyLeft, hwRefreshes, firstPhase, pair, lk, acc>>

SetInvertBorder ==
    /\ pc = "idle"
    /\ \E v \in BOOLEAN : disp' = invertBorderSet(disp, v)
    /\ UNCHANGED <<pc, busyLeft, hwRefreshes, firstPhase, pair, lk, acc>>

SetFastRefresh ==
    /\ pc = "idle"
    /\ \E v \in BOOLEAN : disp' = fastRefreshSet(disp, v)
    /\ UNCHANGED <<pc, busyLeft, hwRefreshes, firstPhase, pair, lk, acc>>

SetFullRefresh ==
    /\ pc = "idle"
    /\ \E v \in BOOLEAN : disp' = fullRefreshSet(disp, v)
    /\ UNCHANGED <<pc, busyLeft, hwRefreshes, firstPhase, pair, lk, acc>>

SetInitialRefresh ==
    /\ pc = "idle"
    /\ \E v \in BOOLEAN : disp' = initialRefreshSet(disp, v)
    /\ firstPhase' = IF firstPhase = "pristine" THEN "tainted" ELSE firstPhase
    /\ UNCHANGED <<pc, busyLeft, hwRefreshes, pair, lk, acc>>

SetWindow ==
    /\ pc = "idle"
    /\ \E w \in WindowArgs : disp' = setWindow(disp, w[1], w[2], w[3], w[4])
    /\ UNCHANGED <<pc, busyLeft, hwRefreshes, firstPhase, pair, lk, acc>>

ClearWindow ==
    /\ pc = "idle"
    /\ disp' = clearWindow(disp)
    /\ UNCHANGED <<pc, busyLeft, hwRefreshes, firstPhase, pair, lk, acc>>

Init ==
    /\ disp = DisplayInit
    /\ pc = "idle"
    /\ busyLeft = 0
    /\ hwRefreshes = 0
    /\ firstPhase = "pristine"
    /\ pair = <<DisplayInit, DisplayInit>>
    /\ lk = [table |-> <<>>, key |-> [isNone |-> TRUE, chars |-> <<>>],
             result |-> [kind |-> "pending", code |-> -1,
                         key |-> [t |-> "str", num |-> [m |-> 0, e |-> 0, special |-> ""], chars |-> <<>>],
                         error |-> ""],
             back |-> [kind |-> "pending", code |-> -1,
                       key |-> [t |-> "str", num |-> [m |-> 0, e |-> 0, special |-> ""], chars |-> <<>>],
                       error |-> ""]]
    /\ acc = [pc |-> "none"]

Next ==
    \/ RefreshBegin
    \/ RefreshBusy
    \/ RefreshSuccess
    \/ SetDarkMode
    \/ SetGreyMode
    \/ SetInvertBorder
    \/ SetFastRefresh
    \/ SetFullRefresh
    \/ SetInitialRefresh
    \/ SetWindow
    \/ ClearWindow

Spec == Init /\ [][Next]_vars

-----------------------------------------------------------------------------
(* Two drivers side by side: each is constructed, configured by any         *)
(* sequence of property writes and window calls, and then builds its        *)
(* sequence with _rebuildUpdateSequence, as Watchy.finish does.             *)

Configuring(d) == d.updateSequence = <<>>

PairSetDarkMode ==
    /\ \E i \in 1..2, v \in BOOLEAN :
          /\ Configuring(pair[i])
          /\ pair' = [pair EXCEPT ![i] = darkModeSet(pair[i], v)]
    /\ UNCHANGED <<disp, pc, busyLeft, hwRefreshes, firstPhase, lk, acc>>

PairSetGreyMode ==
    /\ \E i \in 1..2, v \in BOOLEAN :
          /\ Configuring(pair[i])
          /\ pair' = [pair EXCEPT ![i] = greyModeSet(pair[i], v)]
    /\ UNCHANGED <<disp, pc, busyLeft, hwRefreshes, firstPhase, lk, acc>>

PairSetInvertBorder ==
    /\ \E i \in 1..2, v \in BOOLEAN :
          /\ Configuring(pair[i])
          /\ pair' = [pair EXCEPT ![i] = invertBorderSet(pair[i], v)]
    /\ UNCHANGED <<disp, pc, busyLeft, hwRefreshes, firstPhase, lk, acc>>

PairSetFastRefresh ==
    /\ \E i \in 1..2, v \in BOOLEAN :
          /\ Configuring(pair[i])
          /\ pair' = [pair EXCEPT ![i] = fastRefreshSet(pair[i], v)]
    /\ UNCHANGED <<disp, pc, busyLeft, hwRefreshes, firstPhase, lk, acc>>

PairSetFullRefresh ==
    /\ \E i \in 1..2, v \in BOOLEAN :
          /\ Configuring(pair[i])
          /\ pair' = [pair EXCEPT ![i] = fullRefreshSet(pair[i], v)]
    /\ UNCHANGED <<disp, pc, busyLeft, hwRefreshes, firstPhase, lk, acc>>

PairSetInitialRefresh ==
    /\ \E i \in 1..2, v \in BOOLEAN :
          /\ Configuring(pair[i])
          /\ pair' = [pair EXCEPT ![i] = initialRefreshSet(pair[i], v)]
    /\ UNCHANGED <<disp, pc, busyLeft, hwRefreshes, firstPhase, lk, acc>>

PairSetWindow ==
    /\ \E i \in 1..2, w \in WindowArgs :
          /\ Configuring(pair[i])
          /\ pair' = [pair EXCEPT ![i] = setWindow(pair[i], w[1], w[2], w[3], w[4])]
    /\ UNCHANGED <<disp, pc, busyLeft, hwRefreshes, firstPhase, lk, acc>>

PairClearWindow ==
    /\ \E i \in 1..2 :
          /\ Configuring(pair[i])
          /\ pair' = [pair EXCEPT ![i] = clearWindow(pair[i])]
    /\ UNCHANGED <<disp, pc, busyLeft, hwRefreshes, firstPhase, lk, acc>>

PairBuild ==
    /\ \E i \in 1..2 :
          /\ Configuring(pair[i])
          /\ pair' = [pair EXCEPT ![i] = _rebuildUpdateSequence(pair[i])]
    /\ UNCHANGED <<disp, pc, busyLeft, hwRefreshes, firstPhase, lk, acc>>

PairNext ==
    \/ PairSetDarkMode
    \/ PairSetGreyMode
    \/ PairSetInvertBorder
    \/ PairSetFastRefresh
    \/ PairSetFullRefresh
    \/ PairSetInitialRefresh
    \/ PairSetWindow
    \/ PairClearWindow
    \/ PairBuild

PairSpec == Init /\ [][PairNext]_vars

\* the retry loop keeps running: each pass is eventually followed by the next
LiveSpec == Spec /\ WF_vars(RefreshAttempt)

TypeOK ==
    /\ pc \in {"idle", "retry"}
    /\ busyLeft \in BusyBudgets
    /\ disp.display.calls \in 0..1
    /\ hwRefreshes \in 0..1
    /\ firstPhase \in {"pristine", "tainted", "done"}


-----------------------------------------------------------------------------
(* Python strings and numbers *)

UpperChars == <<"A", "B", "C", "D", "E", "F", "G", "H", "I", "J", "K", "L", "M", "N", "O", "P", "Q", "R", "S", "T", "U", "V", "W", "X", "Y", "Z">>
LowerChars == <<"a", "b", "c", "d", "e", "f", "g", "h", "i", "j", "k", "l", "m", "n", "o", "p", "q", "r", "s", "t", "u", "v", "w", "x", "y", "z">>
DigitChars == <<"0", "1", "2", "3", "4", "5", "6", "7", "8", "9">>


\* str.lower()
lowerChar(c) ==
    IF \E i \in 1..Len(UpperChars) : UpperChars[i] = c
      THEN LowerChars[CHOOSE i \in 1..Len(UpperChars) : UpperChars[i] = c]
      ELSE c

lower(s) == [i \in 1..Len(s) |-> lowerChar(s[i])]

\* str.replace(old, ''): the occurrences of old are removed, left to right
RECURSIVE RemoveFrom(_, _, _)
RemoveFrom(s, old, i) ==
    IF i > Len(s) THEN <<>>
    ELSE IF i + Len(old) - 1 <= Len(s) /\ SubSeq(s, i, i + Len(old) - 1) = old
      THEN RemoveFrom(s, old, i + Len(old))
      ELSE <<s[i]>> \o RemoveFrom(s, old, i + 1)

remove(s, old) == RemoveFrom(s, old, 1)

\* str.strip()
RECURSIVE strip(_)
strip(s) ==
    IF s = <<>> THEN s
    ELSE IF Head(s) = " " THEN strip(Tail(s))
    ELSE IF s[Len(s)] = " " THEN strip(SubSeq(s, 1, Len(s) - 1))
    ELSE s

\* numbers are exact decimals m * 10^e, m without trailing zeros, or one of
\* the non-finite floats
RECURSIVE Dec(_, _)
Dec(m, e) ==
    IF m = 0 THEN [m |-> 0, e |-> 0, special |-> ""]
    ELSE IF m % 10 = 0 THEN Dec(m \div 10, e + 1)
    ELSE [m |-> m, e |-> e, special |-> ""]

NonFinite(word) == [m |-> 0, e |-> 0, special |-> word]

\* x * 10 ** scalar
Scale(x, scalar) == IF x.special # "" THEN x ELSE Dec(x.m, x.e + scalar)

\* Python values used as dictionary keys: a float or a str
Lit(x) == [t |-> "float", num |-> x, chars |-> <<>>]
Str(cs) == [t |-> "str", num |-> Dec(0, 0), chars |-> cs]

IsDigit(c) == \E i \in 1..Len(DigitChars) : DigitChars[i] = c
DigitOf(c) == (CHOOSE i \in 1..Len(DigitChars) : DigitChars[i] = c) - 1

RECURSIVE DigitsValue(_)
DigitsValue(ds) ==
    IF ds = <<>> THEN 0
    ELSE 10 * DigitsValue(SubSeq(ds, 1, Len(ds) - 1)) + DigitOf(ds[Len(ds)])

AllDigits(s) == \A i \in 1..Len(s) : IsDigit(s[i])

IsSign(c) == c = "+" \/ c = "-"

\* position of the first c in s, or 0
FirstIndex(s, c) ==
    IF \E i \in 1..Len(s) : s[i] = c
      THEN CHOOSE i \in 1..Len(s) : s[i] = c /\ \A j \in 1..(i - 1) : s[j] # c
      ELSE 0

\* float(s) for a lower-case s without blanks: an optional sign, then inf,
\* infinity or nan, or digits with at most one point and an optional exponent
ParseUnsigned(s) ==
    IF s \in { <<"i", "n", "f">>, <<"i", "n", "f", "i", "n", "i", "t", "y">> }
      THEN [ok |-> TRUE, num |-> NonFinite("inf")]
    ELSE IF s = <<"n", "a", "n">>
      THEN [ok |-> TRUE, num |-> NonFinite("nan")]
    ELSE
      LET ePos  == FirstIndex(s, "e")
          mant  == IF ePos = 0 THEN s ELSE SubSeq(s, 1, ePos - 1)
          expo  == IF ePos = 0 THEN <<>> ELSE SubSeq(s, ePos + 1, Len(s))
          expDs == IF expo # <<>> /\ IsSign(expo[1]) THEN Tail(expo) ELSE expo
          expOk == ePos = 0 \/ (expDs # <<>> /\ AllDigits(expDs))
          expV  == IF ePos = 0 \/ ~expOk THEN 0
                   ELSE IF expo[1] = "-" THEN 0 - DigitsValue(expDs)
                   ELSE DigitsValue(expDs)
          dot   == FirstIndex(mant, ".")
          whole == IF dot = 0 THEN mant ELSE SubSeq(mant, 1, dot - 1)
          frac  == IF dot = 0 THEN <<>> ELSE SubSeq(mant, dot + 1, Len(mant))
          mantOk == AllDigits(whole) /\ AllDigits(frac) /\ Len(whole) + Len(frac) >= 1
      IN  IF mantOk /\ expOk
            THEN [ok |-> TRUE, num |-> Dec(DigitsValue(whole \o frac), expV - Len(frac))]
            ELSE [ok |-> FALSE, num |-> Dec(0, 0)]

float(s) ==
    IF s # <<>> /\ IsSign(s[1])
      THEN LET r == ParseUnsigned(Tail(s))
           IN  IF r.ok /\ s[1] = "-"
                 THEN [ok |-> TRUE,
                       num |-> IF r.num.special = "inf" THEN NonFinite("-inf")
                               ELSE IF r.num.special = "nan" THEN r.num
                               ELSE Dec(0 - r.num.m, r.num.e)]
                 ELSE r
      ELSE ParseUnsigned(s)

-----------------------------------------------------------------------------
(* LookupTable *)

metricScalars ==
    [c \in {"m", "u", "n", "p", "k", "M", "G", "T"} |->
        CASE c = "m" -> -3 [] c = "u" -> -6 [] c = "n" -> -9 [] c = "p" -> -12
          [] c = "k" -> 3  [] c = "M" -> 6  [] c = "G" -> 9  [] c = "T" -> 12]

\* k.lower().replace(' ', '')
normalise(s) == remove(lower(s), <<" ">>)

\* one table as LookupTable.__init__ leaves it
TableInit(t) ==
    LET type == IF t.hasType THEN t.type ELSE "numeric"
        values ==
            IF type = "word"
              THEN { <<Str(normalise(p[1].chars)), p[2]>> : p \in {q \in t.values : q[1].t = "str"} }
              ELSE t.values
    IN  [ type |-> type, hasUnit |-> t.hasUnit, unit |-> t.unit,
          values |-> values,
          reversed |-> { <<p[2], p[1]>> : p \in values } ]

\* self.allData after LookupTable.__init__(content)
LookupTableInit(content) ==
    [ n \in { normalise(content[i].name) : i \in 1..Len(content) } |->
        TableInit(content[CHOOSE i \in 1..Len(content) : normalise(content[i].name) = n]) ]

(* Accelerometer.opts: the literal handed to LookupTable(...) *)

OptsContent ==
    << [ name |-> <<"d", "a", "t", "a", " ", "r", "a", "t", "e">>, hasType |-> FALSE, type |-> "", hasUnit |-> TRUE, unit |-> <<"h", "z">>,
         values |-> { <<Lit(Dec(78, -2)), 1>>,
            <<Lit(Dec(15, -1)), 2>>,
            <<Lit(Dec(31, -1)), 3>>,
            <<Lit(Dec(625, -2)), 4>>,
            <<Lit(Dec(125, -1)), 5>>,
            <<Lit(Dec(25, 0)), 6>>,
            <<Lit(Dec(50, 0)), 7>>,
            <<Lit(Dec(100, 0)), 8>>,
            <<Lit(Dec(200, 0)), 9>>,
            <<Lit(Dec(400, 0)), 10>>,
            <<Lit(Dec(800, 0)), 11>>,
            <<Lit(Dec(1600, 0)), 12>> } ],
       [ name |-> <<"b", "a", "n", "d", "w", "i", "d", "t", "h">>, hasType |-> FALSE, type |-> "", hasUnit |-> TRUE, unit |-> <<"s", "a", "m", "p", "l", "e">>,
         values |-> { <<Lit(Dec(1, 0)), 0>>,
            <<Lit(Dec(2, 0)), 1>>,
            <<Lit(Dec(4, 0)), 2>>,
            <<Lit(Dec(8, 0)), 3>>,
            <<Lit(Dec(16, 0)), 4>>,
            <<Lit(Dec(32, 0)), 5>>,
            <<Lit(Dec(64, 0)), 6>>,
            <<Lit(Dec(128, 0)), 7>> } ],
       [ name |-> <<"a", "c", "c", "e", "l", "e", "r", "a", "t", "i", "o", "n", " ", "r", "a", "n", "g", "e">>, hasType |-> FALSE, type |-> "", hasUnit |-> TRUE, unit |-> <<"g">>,
         values |-> { <<Lit(Dec(2, 0)), 0>>,
            <<Lit(Dec(4, 0)), 1>>,
            <<Lit(Dec(8, 0)), 2>>,
            <<Lit(Dec(16, 0)), 3>> } ],
       [ name |-> <<"c", "m", "d">>, hasType |-> TRUE, type |-> "word", hasUnit |-> FALSE, unit |-> <<>>,
         values |-> { <<Str(<<"n", "v", "m", "P", "r", "o", "g">>), 160>>,
            <<Str(<<"f", "i", "f", "o", "F", "l", "u", "s", "h">>), 176>>,
            <<Str(<<"s", "o", "f", "t", "R", "e", "s", "e", "t">>), 182>> } ],
       [ name |-> <<"f", "e", "a", "t", "u", "r", "e", "s">>, hasType |-> TRUE, type |-> "multiword", hasUnit |-> FALSE, unit |-> <<>>,
         values |-> { <<Str(<<"s", "t", "e", "p", " ", "c", "o", "u", "n", "t", "e", "r">>), <<59, 4>>>>,
            <<Str(<<"a", "c", "t", "i", "v", "i", "t", "y", " ", "d", "e", "t", "e", "c", "t", "i", "o", "n">>), <<59, 8>>>>,
            <<Str(<<"t", "i", "l", "t", " ", "d", "e", "t", "e", "c", "t", "i", "o", "n">>), <<64, 1>>>>,
            <<Str(<<"s", "i", "n", "g", "l", "e", " ", "t", "a", "p", " ", "d", "e", "t", "e", "c", "t", "i", "o", "n">>), <<60, 1>>>>,
            <<Str(<<"d", "o", "u", "b", "l", "e", " ", "t", "a", "p", " ", "d", "e", "t", "e", "c", "t", "i", "o", "n">>), <<62, 1>>>> } ] >>


allData == LookupTableInit(OptsContent)

\* arguments and results of the two methods
NoneKey == [isNone |-> TRUE, chars |-> <<>>]
StrKey(cs) == [isNone |-> FALSE, chars |-> cs]

NoCode == -1
Ok(code, key) == [kind |-> "ok", code |-> code, key |-> key, error |-> ""]
Raise(error) == [kind |-> "raise", code |-> NoCode, key |-> Str(<<>>), error |-> error]
Pending == [kind |-> "pending", code |-> NoCode, key |-> Str(<<>>), error |-> ""]

\* "Remove the unit if present. Allow for singular and plural."
stripUnit(t, key) ==
    IF t.hasUnit
      THEN remove(remove(remove(remove(key,
                t.unit \o <<t.unit[Len(t.unit)]>> \o <<"e", "s">>),
                t.unit \o <<"e", "s">>),
                t.unit \o <<"s">>),
                t.unit)
      ELSE key

\* the exponent of the metric prefix that ends the key, 0 without one
scalarOf(key) ==
    IF key[Len(key)] \in DOMAIN metricScalars THEN metricScalars[key[Len(key)]] ELSE 0

stripPrefix(key) ==
    IF key[Len(key)] \in DOMAIN metricScalars THEN SubSeq(key, 1, Len(key) - 1) ELSE key

\* a search that answers code 0 for a key the table does not have
findOrDefault(t, key) ==
    IF \E p \in t.values : p[1] = key
      THEN Ok((CHOOSE p \in t.values : p[1] = key)[2], key)
      ELSE Ok(0, key)

\* "if key in table['values']: return table['values'][key] else: raise"
find(t, key) ==
    IF \E p \in t.values : p[1] = key
      THEN Ok((CHOOSE p \in t.values : p[1] = key)[2], key)
      ELSE Raise("RuntimeError")

\* LookupTable.lookup(table, key)
lookup(table, key) ==
    IF normalise(table) \notin DOMAIN allData THEN Raise("RuntimeError")
    ELSE IF key.isNone \/ key.chars = <<>> THEN Raise("RuntimeError")
    ELSE
      LET t == allData[normalise(table)]
          k == normalise(key.chars)
      IN  IF t.type = "numeric"
            THEN LET u == stripUnit(t, k)
                 IN  IF u = <<>> THEN Raise("IndexError")
                     ELSE IF ~float(stripPrefix(u)).ok THEN Raise("RuntimeError")
                     ELSE find(t, Lit(Scale(float(stripPrefix(u)).num, scalarOf(u))))
            ELSE find(t, Str(k))

\* LookupTable.getkey(table, key): after the name check, table is still the
\* name, a str, and table['reversed'] indexes a str with a str
getkey(table, key) ==
    IF strip(lower(table)) \notin DOMAIN allData THEN Raise("RuntimeError")
    ELSE Raise("TypeError")

-----------------------------------------------------------------------------
(* One LookupTable call sequence: lookup(table, key), then getkey on its code *)

NumeralTexts ==
    { <<"0", ".", "7", "8">>,
      <<"1", ".", "5">>,
      <<"3", ".", "1">>,
      <<"6", ".", "2", "5">>,
      <<"1", "2", ".", "5">>,
      <<"2", "5">>,
      <<"5", "0">>,
      <<"1", "0", "0">>,
      <<"2", "0", "0">>,
      <<"4", "0", "0">>,
      <<"8", "0", "0">>,
      <<"1", "6", "0", "0">>,
      <<"1">>,
      <<"2">>,
      <<"4">>,
      <<"8">>,
      <<"1", "6">>,
      <<"3", "2">>,
      <<"6", "4">>,
      <<"1", "2", "8">>,
      <<>>,
      <<"3">>,
      <<"1", ".", "6">>,
      <<"0", ".", "0", "5">>,
      <<".">>,
      <<"1", "e", "2">>,
      <<"2", "e">>,
      <<"-", "2">>,
      <<"0", ".", "2">>,
      <<"2", "5", "0", "0", "0">>,
      <<"1", ".", "5", ".">>,
      <<"x">>,
      <<"i", "n", "f">>,
      <<"n", "a", "n">>,
      <<"n", "a">> }

PrefixTexts ==
    { <<>>, <<"k">>, <<"m">>, <<"M">>, <<"u">>, <<"n">>, <<"p">>, <<"G">>, <<"T">> }

UnitTexts ==
    { <<>>,
      <<"h", "z">>,
      <<"H", "z">>,
      <<" ", "H", "z">>,
      <<"h", "z", "s">>,
      <<"g">>,
      <<"G">>,
      <<"s", "a", "m", "p", "l", "e">>,
      <<" ", "s", "a", "m", "p", "l", "e", "s">>,
      <<"g", "s">> }

WordTexts ==
    { <<"n", "v", "m", "P", "r", "o", "g">>,
      <<"f", "i", "f", "o", "F", "l", "u", "s", "h">>,
      <<"s", "o", "f", "t", "R", "e", "s", "e", "t">>,
      <<"s", "o", "f", "t", " ", "r", "e", "s", "e", "t">>,
      <<"s", "t", "e", "p", " ", "c", "o", "u", "n", "t", "e", "r">>,
      <<"r", "e", "s", "e", "t">>,
      <<" ">> }

TableNames ==
    { <<"d", "a", "t", "a", " ", "r", "a", "t", "e">>,
      <<"D", "a", "t", "a", " ", "R", "a", "t", "e">>,
      <<"d", "a", "t", "a", "r", "a", "t", "e">>,
      <<"b", "a", "n", "d", "w", "i", "d", "t", "h">>,
      <<" ", "b", "a", "n", "d", "w", "i", "d", "t", "h">>,
      <<"a", "c", "c", "e", "l", "e", "r", "a", "t", "i", "o", "n", " ", "r", "a", "n", "g", "e">>,
      <<"c", "m", "d">>,
      <<"f", "e", "a", "t", "u", "r", "e", "s">>,
      <<"r", "a", "n", "g", "e">> }

KeyArgs ==
    { StrKey(n \o p \o u) : n \in NumeralTexts, p \in PrefixTexts, u \in UnitTexts }
    \cup { StrKey(w) : w \in WordTexts }
    \cup { NoneKey }

LookupInit ==
    /\ disp = DisplayInit
    /\ pc = "idle"
    /\ busyLeft = 0
    /\ hwRefreshes = 0
    /\ firstPhase = "pristine"
    /\ pair = <<DisplayInit, DisplayInit>>
    /\ lk \in { [table |-> n, key |-> k, result |-> Pending, back |-> Pending] :
                  n \in TableNames, k \in KeyArgs }
    /\ acc = [pc |-> "none"]

DoLookup ==
    /\ lk.result.kind = "pending"
    /\ lk' = [lk EXCEPT !.result = lookup(lk.table, lk.key)]
    /\ UNCHANGED <<disp, pc, busyLeft, hwRefreshes, firstPhase, pair, acc>>

DoGetkey ==
    /\ lk.result.kind = "ok"
    /\ lk.back.kind = "pending"
    /\ lk' = [lk EXCEPT !.back = getkey(lk.table, lk.result.code)]
    /\ UNCHANGED <<disp, pc, busyLeft, hwRefreshes, firstPhase, pair, acc>>

LookupNext == DoLookup \/ DoGetkey

LookupSpec == LookupInit /\ [][LookupNext]_vars

(* Lookups in the numeric tables with a key written as a numeral, a metric  *)
(* prefix letter and the table's unit (or none): lk.numeral and lk.prefix   *)
(* keep the two parts the caller wrote.                                     *)

\* the numerals of NumeralTexts that float() reads as a finite number
FiniteNumerals ==
    { n \in NumeralTexts : float(n).ok /\ float(n).num.special = "" }

\* the unit texts that lookup strips entirely in table t
UnitsOf(t) == { u \in UnitTexts : stripUnit(t, normalise(u)) = <<>> }

PrefixInit ==
    /\ disp = DisplayInit
    /\ pc = "idle"
    /\ busyLeft = 0
    /\ hwRefreshes = 0
    /\ firstPhase = "pristine"
    /\ pair = <<DisplayInit, DisplayInit>>
    /\ lk \in { [table |-> OptsContent[i].name, key |-> StrKey(n \o p \o u),
                 result |-> Pending, back |-> Pending, numeral |-> n, prefix |-> p[1]] :
                  i \in 1..3, n \in FiniteNumerals, p \in PrefixTexts \ {<<>>},
                  u \in UnitTexts }
    /\ stripUnit(allData[normalise(lk.table)], normalise(lk.key.chars))
          = normalise(lk.numeral \o <<lk.prefix>>)
    /\ acc = [pc |-> "none"]

PrefixSpec == PrefixInit /\ [][LookupNext]_vars

-----------------------------------------------------------------------------
(* Accelerometer: the BMA423 register driver.                               *)
(*                                                                          *)
(* Every register field is a descriptor of the Adafruit register library:   *)
(* reading a field is one bus read of its register; writing an RWBit or     *)
(* RWBits field is a bus read of the register followed by a bus write of    *)
(* it; writing the Struct _featuresIn is one burst write, reading it one    *)
(* burst read.  Bits are 0 and 1.  Sleeps are in microseconds.              *)

_MAX_TRANSFER_LENGTH == 8
_BMA423_ID == 19
\* 0x2000, the size of the feature window
FeatureSpace == 8192

\* register address of each field used by the driver
addrOf ==
    [ _deviceId |-> 0,
      _errReg |-> 2, _auxErr |-> 2, _fifoErr |-> 2, _errorCode |-> 2,
      _cmdErr |-> 2, _fatalErr |-> 2,
      _cmdRdy |-> 3,
      _statusReg |-> 42, _internalStatus |-> 42, _axesRemapError |-> 42,
      _odr50hzError |-> 42, _odrHighError |-> 42,
      _accOdr |-> 64, _accBwp |-> 64, _accPerfMode |-> 64,
      _accRange |-> 65,
      _initCtrl |-> 89,
      _asicLsb |-> 91, _asicMsb |-> 92,
      _featuresIn |-> 94,
      _intErr1 |-> 95, _intErr2 |-> 95,
      _advPowerSave |-> 124,
      _accEn |-> 125,
      _cmd |-> 126 ]

\* the fields the driver writes; the chip holds what was written to them
WrittenFields ==
    { "_accOdr", "_accBwp", "_accPerfMode", "_accRange", "_initCtrl",
      "_asicLsb", "_asicMsb", "_advPowerSave", "_accEn", "_cmd" }

\* one transaction on the bus, or one sleep between two of them
Rd(f, v) == [op |-> "read", addr |-> addrOf[f], field |-> f, val |-> v, data |-> <<>>]
Wr(f, v) == [op |-> "write", addr |-> addrOf[f], field |-> f, val |-> v, data |-> <<>>]
RdBurst(d) == [op |-> "read", addr |-> addrOf["_featuresIn"], field |-> "_featuresIn", val |-> 0, data |-> d]
WrBurst(d) == [op |-> "write", addr |-> addrOf["_featuresIn"], field |-> "_featuresIn", val |-> 0, data |-> d]
Sleep(us) == [op |-> "sleep", addr |-> -1, field |-> "", val |-> us, data |-> <<>>]

\* A method in progress: the chip's registers, the bus traffic so far, and
\* the exception that ended it ("" while none was raised) with the text of
\* errorMessage where the exception carries it.
Running(chip) == [chip |-> chip, log |-> <<>>, exc |-> "", msg |-> <<>>]
Raised(m, exc) == [m EXCEPT !.exc = exc]
Traffic(m, ops) == [m EXCEPT !.log = @ \o ops]

\* ROBit / ROBits / ROUnaryStruct __get__ of a field the chip answers with v
Get(m, f, v) == Traffic(m, <<Rd(f, v)>>)
\* RWBit / RWBits __set__: read the register, change the field, write it
SetBits(m, f, v) == [m EXCEPT !.log = @ \o <<Rd(f, m.chip[f]), Wr(f, v)>>,
                              !.chip[f] = v]
\* Struct __set__ and __get__ of _featuresIn
SetStruct(m, d) == Traffic(m, <<WrBurst(d)>>)
GetStruct(m, d) == Traffic(m, <<RdBurst(d)>>)

(* lowPowerMode *)

\* "return self._advPowerSave and not self._accPerfMode"
lowPowerMode(chip) == chip._advPowerSave = 1 /\ chip._accPerfMode = 0

\* the reads of that expression: the second operand only if the first is true
lowPowerModeReads(chip) ==
    <<Rd("_advPowerSave", chip._advPowerSave)>>
    \o (IF chip._advPowerSave = 1 THEN <<Rd("_accPerfMode", chip._accPerfMode)>> ELSE <<>>)

\* a setter that writes the performance-mode bit before the power-save bit
lowPowerModeSetPerfFirst(m, value) ==
    SetBits(Traffic(SetBits(m, "_accPerfMode", 1 - value), <<Sleep(450)>>),
            "_advPowerSave", value)

lowPowerModeSet(m, value) ==
    SetBits(Traffic(SetBits(m, "_advPowerSave", value), <<Sleep(450)>>),
            "_accPerfMode", 1 - value)

(* error and errorMessage.  st is what the chip's status registers hold      *)
(* while the property is evaluated: one bit per flag, errorCode in 0..7,     *)
(* internalStatus in 0..31, reserved5 the unnamed bit 5 of the error         *)
(* register.                                                                 *)

errRegOf(st) ==
    st.auxErr * 128 + st.fifoErr * 64 + st.reserved5 * 32 + st.errorCode * 4
    + st.cmdErr * 2 + st.fatalErr

statusRegOf(st) ==
    st.odrHighError * 128 + st.odr50hzError * 64 + st.axesRemapError * 32
    + st.internalStatus

\* x & 0xDF
MaskDF(x) == x - 32 * ((x \div 32) % 2)

error(st) ==
    \/ MaskDF(errRegOf(st)) # 0
    \/ statusRegOf(st) # 1
    \/ st.intErr1 = 1
    \/ st.intErr2 = 1

\* the reads of error: "or" stops at the first operand that is true
errorReads(st) ==
    <<Rd("_errReg", errRegOf(st))>>
    \o (IF MaskDF(errRegOf(st)) # 0 THEN <<>>
        ELSE <<Rd("_statusReg", statusRegOf(st))>>
             \o (IF statusRegOf(st) # 1 THEN <<>>
                 ELSE <<Rd("_intErr1", st.intErr1)>>
                      \o (IF st.intErr1 = 1 THEN <<>>
                          ELSE <<Rd("_intErr2", st.intErr2)>>)))

\* the text of errorMessage, as the list of the pieces it concatenates
errorMessage(st) ==
    IF ~error(st) THEN <<"No error.">>
    ELSE
      LET errors ==
              (IF st.auxErr = 1 THEN <<"Auxiliary sensor error. ">> ELSE <<>>)
           \o (IF st.fifoErr = 1 THEN <<"FIFO error. ">> ELSE <<>>)
           \o (IF st.cmdErr = 1 THEN <<"Command error. ">> ELSE <<>>)
           \o (IF st.fatalErr = 1 THEN <<"Fatal error. ">> ELSE <<>>)
           \o (IF st.errorCode # 0 THEN <<"Error in ACC_CONF register. ">> ELSE <<>>)
           \o (IF st.odrHighError = 1 THEN <<"ODR set too low for feature.">> ELSE <<>>)
           \o (IF st.odr50hzError = 1
                 THEN <<"ODR requires a minimum of 50 Hz in power saving mode. ">>
                 ELSE <<>>)
           \o (IF st.axesRemapError = 1 THEN <<"Axes remapped incorrectly. ">> ELSE <<>>)
           \o (IF st.internalStatus = 0 THEN <<"Not initialized. ">>
               ELSE IF st.internalStatus = 2 THEN <<"Initialization error. ">>
               ELSE IF st.internalStatus = 3 THEN <<"Invalid driver. ">>
               ELSE IF st.internalStatus = 4 THEN <<"Sensor stopped. ">>
               ELSE IF st.intErr1 = 1 THEN <<"Internal timeout.">>
               ELSE IF st.intErr2 = 1 THEN <<"Internal error.">>
               ELSE <<>>)
      IN  IF errors = <<>> THEN <<"Unknown error.">> ELSE errors

\* the reads of errorMessage
errorMessageReads(st) ==
    errorReads(st)
    \o (IF ~error(st) THEN <<>>
        ELSE << Rd("_auxErr", st.auxErr), Rd("_fifoErr", st.fifoErr),
                Rd("_cmdErr", st.cmdErr), Rd("_fatalErr", st.fatalErr),
                Rd("_errorCode", st.errorCode),
                Rd("_odrHighError", st.odrHighError),
                Rd("_odr50hzError", st.odr50hzError),
                Rd("_axesRemapError", st.axesRemapError),
                Rd("_internalStatus", st.internalStatus) >>
             \o (IF st.internalStatus = 0 THEN <<>>
                 ELSE <<Rd("_internalStatus", st.internalStatus)>>
                   \o (IF st.internalStatus = 2 THEN <<>>
                       ELSE <<Rd("_internalStatus", st.internalStatus)>>
                         \o (IF st.internalStatus = 3 THEN <<>>
                             ELSE <<Rd("_internalStatus", st.internalStatus)>>
                               \o (IF st.internalStatus = 4 THEN <<>>
                                   ELSE <<Rd("_intErr1", st.intErr1)>>
                                     \o (IF st.intErr1 = 1 THEN <<>>
                                         ELSE <<Rd("_intErr2", st.intErr2)>>))))))

\* the exception carries errorMessage; without an error the method sleeps
\* 1 ms unless low-power mode is enabled
_writeChecks(m, st) ==
    IF error(st)
      THEN [Traffic(m, errorReads(st) \o errorMessageReads(st))
              EXCEPT !.exc = "RuntimeError: ACCEL: ERROR", !.msg = errorMessage(st)]
      ELSE Traffic(m, errorReads(st) \o lowPowerModeReads(m.chip)
                      \o (IF lowPowerMode(m.chip) THEN <<>> ELSE <<Sleep(1000)>>))

(* The validated setters.  A statement that follows a raised exception is   *)
(* not executed: the operators below return m as it is when m.exc is set.   *)

\* "self._accOdr = value" and its like, after the pre-write check
WriteField(m, f, v) == IF m.exc # "" THEN m ELSE SetBits(m, f, v)

\* a setter body that writes code 0 for a key the table does not have
SettingSetUnvalidated(m, r, f, st) ==
    IF m.exc # "" THEN m
    ELSE WriteField(_writeChecks(m, st), f, IF r.kind = "raise" THEN 0 ELSE r.code)

\* a setter body that writes the field before it runs the pre-write check
SettingSetWriteFirst(m, r, f, st) ==
    IF m.exc # "" THEN m
    ELSE IF r.kind = "raise" THEN Raised(m, r.error)
    ELSE _writeChecks(SetBits(m, f, r.code), st)

\* the body the three setters share: r is the result of opts.lookup, which
\* raises before anything else is done; then the check, then the write
SettingSet(m, r, f, st) ==
    IF m.exc # "" THEN m
    ELSE IF r.kind = "raise" THEN Raised(m, r.error)
    ELSE WriteField(_writeChecks(m, st), f, r.code)

dataRateSet(m, value, st) ==
    SettingSet(m, lookup(<<"d", "a", "t", "a", " ", "r", "a", "t", "e">>, value),
               "_accOdr", st)

bandwidthParameterSet(m, value, st) ==
    SettingSet(m, lookup(<<"b", "a", "n", "d", "w", "i", "d", "t", "h">>, value),
               "_accBwp", st)

accelerationRangeSet(m, value, st) ==
    SettingSet(m, lookup(<<"a", "c", "c", "e", "l", "e", "r", "a", "t", "i", "o", "n",
                           " ", "r", "a", "n", "g", "e">>, value),
               "_accRange", st)

\* the lowPowerMode setter as a statement
SetLowPower(m, value) == IF m.exc # "" THEN m ELSE lowPowerModeSet(m, value)

(* The feature-address window and the config loader *)

\* a setter whose upper limit is the end of the window itself
_featureAddressSetToEnd(m, value) ==
    IF value < 0 \/ value > FeatureSpace
      THEN Raised(m, "ValueError: ACCEL: Invalid feature address")
      ELSE SetBits(SetBits(m, "_asicLsb", Shr(value, 1) % 16), "_asicMsb", Shr(value, 5))

_featureAddressSet(m, value) ==
    IF value < 0 \/ value > FeatureSpace - _MAX_TRANSFER_LENGTH
      THEN Raised(m, "ValueError: ACCEL: Invalid feature address")
      ELSE SetBits(SetBits(m, "_asicLsb", Shr(value, 1) % 16), "_asicMsb", Shr(value, 5))

\* config[offset:offset + dataLen]
Slice(config, offset, dataLen) ==
    SubSeq(config, offset + 1,
           IF offset + dataLen < Len(config) THEN offset + dataLen ELSE Len(config))

\* what a burst read answers: the bytes written, or, at the offset failAt,
\* bytes that differ from them
NoMismatch == -1
ReadBack(data, offset, failAt) ==
    IF offset = failAt
      THEN [i \in 1..Len(data) |-> IF i = 1 THEN (data[i] + 1) % 256 ELSE data[i]]
      ELSE data

\* "self._featuresIn = data"
WriteData(m, data) == IF m.exc # "" THEN m ELSE SetStruct(m, data)

\* "if self._featuresIn != tuple(data): raise RuntimeError(...)"
ReadVerify(m, data, back) ==
    IF m.exc # "" THEN m
    ELSE IF back # data
      THEN Raised(GetStruct(m, back), "RuntimeError: ACCEL: Config verify failed.")
      ELSE GetStruct(m, back)

\* a loop body that writes the bytes of the chunk before it sets the address
LoadChunkDataFirst(m, config, offset, failAt) ==
    ReadVerify(
        _featureAddressSet(WriteData(m, Slice(config, offset, _MAX_TRANSFER_LENGTH)), offset),
        Slice(config, offset, _MAX_TRANSFER_LENGTH),
        ReadBack(Slice(config, offset, _MAX_TRANSFER_LENGTH), offset, failAt))

\* the body of "for offset in range(0, len(config), dataLen)"
LoadChunk(m, config, offset, failAt) ==
    ReadVerify(
        WriteData(_featureAddressSet(m, offset), Slice(config, offset, _MAX_TRANSFER_LENGTH)),
        Slice(config, offset, _MAX_TRANSFER_LENGTH),
        ReadBack(Slice(config, offset, _MAX_TRANSFER_LENGTH), offset, failAt))

\* the loop over the chunks number lo..hi, in this order, left by the first
\* exception (the range is halved to keep the evaluation shallow)
RECURSIVE LoadChunks(_, _, _, _, _)
LoadChunks(m, config, lo, hi, failAt) ==
    IF lo > hi \/ m.exc # "" THEN m
    ELSE IF lo = hi THEN LoadChunk(m, config, lo * _MAX_TRANSFER_LENGTH, failAt)
    ELSE LoadChunks(LoadChunks(m, config, lo, (lo + hi) \div 2, failAt),
                    config, (lo + hi) \div 2 + 1, hi, failAt)

\* the number of values of range(0, n, dataLen)
ChunkCount(n) == (n + _MAX_TRANSFER_LENGTH - 1) \div _MAX_TRANSFER_LENGTH

\* a loader without the low-power precondition
_loadMainConfigUnguarded(m, config, failAt) ==
    IF m.exc # "" THEN m
    ELSE IF Len(config) >= FeatureSpace
      THEN Raised(Traffic(m, lowPowerModeReads(m.chip)),
                  "RuntimeError: ACCEL: Config too large.")
    ELSE IF Len(config) % 8 # 0
      THEN Raised(Traffic(m, lowPowerModeReads(m.chip)),
                  "RuntimeError: ACCEL: Config size must be a multiple of eight.")
    ELSE LoadChunks(Traffic(m, lowPowerModeReads(m.chip)), config,
                    0, ChunkCount(Len(config)) - 1, failAt)

_loadMainConfig(m, config, failAt) ==
    IF m.exc # "" THEN m
    ELSE IF lowPowerMode(m.chip)
      THEN Raised(Traffic(m, lowPowerModeReads(m.chip)),
                  "RuntimeError: ACCEL: Cannot load config in low power mode.")
    ELSE IF Len(config) >= FeatureSpace
      THEN Raised(Traffic(m, lowPowerModeReads(m.chip)),
                  "RuntimeError: ACCEL: Config too large.")
    ELSE IF Len(config) % 8 # 0
      THEN Raised(Traffic(m, lowPowerModeReads(m.chip)),
                  "RuntimeError: ACCEL: Config size must be a multiple of eight.")
    ELSE LoadChunks(Traffic(m, lowPowerModeReads(m.chip)), config,
                    0, ChunkCount(Len(config)) - 1, failAt)

(* _runCmd and reset *)

softReset == <<"s", "o", "f", "t", "R", "e", "s", "e", "t">>

\* "self._cmd = cmd; time.sleep(0.01)" with r the result of the lookup
IssueCmd(m, r) ==
    IF m.exc # "" THEN m
    ELSE IF r.kind = "raise" THEN Raised(m, r.error)
    ELSE Traffic(SetBits(m, "_cmd", r.code), <<Sleep(10000)>>)

\* "cmd = self.opts.lookup('cmd', cmd); self._cmd = cmd; time.sleep(0.01)"
runCmdIssue(m, cmd) == IssueCmd(m, lookup(<<"c", "m", "d">>, cmd))

\* one pass of "while not self._cmdRdy: time.sleep(0.001)" that finds the flag
\* clear; a run of such passes is recorded once in the traffic
PollAgain(log) ==
    IF Len(log) >= 2
       /\ SubSeq(log, Len(log) - 1, Len(log)) = <<Rd("_cmdRdy", 0), Sleep(1000)>>
      THEN log ELSE log \o <<Rd("_cmdRdy", 0), Sleep(1000)>>

\* the read of _cmdRdy that ends the loop
PollDone(m) == Get(m, "_cmdRdy", 1)

\* reset() up to the wait of _runCmd('softReset')
resetBegin(m, deviceId) ==
    IF deviceId # _BMA423_ID
      THEN Raised(Get(m, "_deviceId", deviceId), "RuntimeError: ACCEL: Incorrect device ID")
      ELSE runCmdIssue(Get(m, "_deviceId", deviceId), StrKey(softReset))

\* "self._initCtrl = value" as a statement
SetInitCtrl(m, value) == IF m.exc # "" THEN m ELSE SetBits(m, "_initCtrl", value)

\* a reset that applies the config before it loads it
resetLoadApplyFirst(m, config, failAt) ==
    _loadMainConfig(SetInitCtrl(SetInitCtrl(SetLowPower(m, 0), 0), 1), config, failAt)

\* a reset that goes on after the loader has raised
resetLoadIgnoreFailure(m, config, failAt) ==
    SetInitCtrl([_loadMainConfig(SetInitCtrl(SetLowPower(m, 0), 0), config, failAt)
                   EXCEPT !.exc = ""], 1)

\* reset() from "self.lowPowerMode = False" to "self._initCtrl = 0x01"
resetLoad(m, config, failAt) ==
    SetInitCtrl(_loadMainConfig(SetInitCtrl(SetLowPower(m, 0), 0), config, failAt), 1)

\* a reset that enables the accelerometer whatever the internal status is
resetStatusIgnored(m, st) ==
    IF m.exc # "" THEN m
    ELSE SetBits(Get(Traffic(m, <<Sleep(150000)>>), "_internalStatus", st.internalStatus),
                 "_accEn", 1)

\* reset() from "time.sleep(0.15)" to "self._accEn = True"; errorMessage is
\* evaluated for the print and again for the exception
resetStatus(m, st) ==
    IF m.exc # "" THEN m
    ELSE IF st.internalStatus # 1
      THEN [Traffic(m, <<Sleep(150000), Rd("_internalStatus", st.internalStatus)>>
                       \o errorMessageReads(st) \o errorMessageReads(st))
              EXCEPT !.exc = "RuntimeError: ACCEL: Init timed out",
                     !.msg = errorMessage(st)]
      ELSE SetBits(Get(Traffic(m, <<Sleep(150000)>>), "_internalStatus", st.internalStatus),
                   "_accEn", 1)

\* reset() from "self.dataRate = '50 Hz'" to its end; st1, st2, st3 are the
\* chip's status at the three pre-write checks
resetDefaults(m, st1, st2, st3) ==
    SetLowPower(
      accelerationRangeSet(
        bandwidthParameterSet(
          dataRateSet(m, StrKey(<<"5", "0", " ", "H", "z">>), st1),
          StrKey(<<"2", " ", "s", "a", "m", "p", "l", "e", "s">>), st2),
        StrKey(<<"2", "g">>), st3),
      1)

-----------------------------------------------------------------------------
(* The Accelerometer object and its caller.                                 *)
(*                                                                          *)
(* acc.pc: "new" before __init__ has called reset(), "failed" when reset()   *)
(* has raised and no object exists, "idle" between two calls, "preWait" and *)
(* "cmdWait" inside the two waits of _runCmd, "settle" in the 150 ms sleep  *)
(* of reset(), "defaults" before its default settings.  acc.call names the  *)
(* method called last (or in progress), acc.log its bus traffic, acc.exc    *)
(* the exception it raised ("" if none).                                    *)

\* the bytes of a config buffer, by its length
FileContent(n) == [i \in 1..n |-> (7 * i) % 256]

\* lengths of the buffers handed to _loadMainConfig
CfgLens ==
    { 8 * k : k \in 0..MaxChunks } \cup { 4, 8 * MaxChunks + 4 }
    \cup { FeatureSpace - 8, FeatureSpace, FeatureSpace + 8 }

\* lengths of accelcfg.dat when reset() reads it
FileLens == CfgLens \ { FeatureSpace - 8 }

\* offsets at which the bus may answer a burst read with other bytes
FailOffsets(n) ==
    { NoMismatch } \cup { o \in { 0, 8, n - 8 } : o >= 0 /\ o < n /\ o % 8 = 0 }

RdyBudgets == 0..MaxPolls \cup { Forever }

DeviceIds == { _BMA423_ID, 0 }

NoStatusError ==
    [ auxErr |-> 0, fifoErr |-> 0, reserved5 |-> 0, errorCode |-> 0, cmdErr |-> 0,
      fatalErr |-> 0, odrHighError |-> 0, odr50hzError |-> 0, axesRemapError |-> 0,
      internalStatus |-> 1, intErr1 |-> 0, intErr2 |-> 0 ]

\* what the status registers may hold when the driver reads them
StatusCases ==
    { NoStatusError,
      [NoStatusError EXCEPT !.reserved5 = 1],
      [NoStatusError EXCEPT !.internalStatus = 0],
      [NoStatusError EXCEPT !.intErr2 = 1] }

\* the registers before the driver has written any of them
PowerOnChips ==
    { [ _accOdr |-> 8, _accBwp |-> 2, _accPerfMode |-> p, _accRange |-> 1,
        _initCtrl |-> 0, _asicLsb |-> 0, _asicMsb |-> 0, _advPowerSave |-> s,
        _accEn |-> 0, _cmd |-> 0 ] : p \in {0, 1}, s \in {0, 1} }

DataRateKeys ==
    { StrKey(<<"5", "0", " ", "H", "z">>), StrKey(<<"1", "6", "0", "0", "h", "z">>),
      StrKey(<<"3", " ", "H", "z">>), NoneKey }

BandwidthKeys ==
    { StrKey(<<"2", " ", "s", "a", "m", "p", "l", "e", "s">>),
      StrKey(<<"1", "2", "8">>), StrKey(<<"3", " ", "s", "a", "m", "p", "l", "e", "s">>) }

RangeKeys ==
    { StrKey(<<"2", "g">>), StrKey(<<"1", "6", " ", "G">>), StrKey(<<"3", "g">>) }

CmdArgs ==
    { StrKey(softReset), StrKey(<<"f", "i", "f", "o", "F", "l", "u", "s", "h">>),
      StrKey(<<"r", "e", "s", "e", "t">>) }

AddressArgs ==
    { -1, 0, 16, FeatureSpace - 16, FeatureSpace - 9, FeatureSpace - 8,
      FeatureSpace - 7, FeatureSpace }

AccelerometerNew(chip) ==
    [ pc |-> "new", built |-> FALSE, call |-> "", chip |-> chip, log |-> <<>>,
      exc |-> "", msg |-> <<>>, rdyLeft |-> 0, polls |-> 0,
      cfgLen |-> -1, failAt |-> NoMismatch, key |-> NoneKey, value |-> 0 ]

\* the object when a call is made (Called) and when it goes on or ends (Goes)
Called(a, call, m, pcNext) ==
    [a EXCEPT !.pc = pcNext, !.call = call, !.chip = m.chip, !.log = m.log,
              !.exc = m.exc, !.msg = m.msg, !.rdyLeft = 0, !.polls = 0,
              !.cfgLen = -1, !.failAt = NoMismatch, !.key = NoneKey, !.value = 0]
Goes(a, m, pcNext) ==
    [a EXCEPT !.pc = pcNext, !.chip = m.chip, !.log = m.log, !.exc = m.exc,
              !.msg = m.msg, !.rdyLeft = 0, !.polls = 0]
Now(a) == [chip |-> a.chip, log |-> a.log, exc |-> a.exc, msg |-> a.msg]
Rest(a) == IF a.built THEN "idle" ELSE "failed"

AccInit ==
    /\ disp = DisplayInit
    /\ pc = "idle"
    /\ busyLeft = 0
    /\ hwRefreshes = 0
    /\ firstPhase = "pristine"
    /\ pair = <<DisplayInit, DisplayInit>>
    /\ lk = [table |-> <<>>, key |-> NoneKey, result |-> Pending, back |-> Pending]
    /\ acc \in { AccelerometerNew(c) : c \in PowerOnChips }

\* Accelerometer(cfg): __init__ calls reset(); an exception of reset() leaves
\* __init__ and no object exists ("failed")
ResetBegin ==
    /\ acc.pc = "new"
    /\ \E id \in DeviceIds, b \in RdyBudgets :
          \E m \in { resetBegin(Running(acc.chip), id) } :
              acc' = IF m.exc # ""
                       THEN Called(acc, "reset", m, Rest(acc))
                       ELSE [Called(acc, "reset", m, "cmdWait") EXCEPT !.rdyLeft = b]
    /\ UNCHANGED <<disp, pc, busyLeft, hwRefreshes, firstPhase, pair, lk>>

\* one pass of either wait of _runCmd with the flag clear; acc.polls is the
\* number of passes of the wait so far, modulo 2
PollBusy ==
    /\ acc.pc \in {"preWait", "cmdWait"}
    /\ acc.rdyLeft # 0
    /\ acc' = [acc EXCEPT !.log = PollAgain(acc.log),
                          !.polls = 1 - acc.polls,
                          !.rdyLeft = IF acc.rdyLeft = Forever THEN Forever
                                      ELSE acc.rdyLeft - 1]
    /\ UNCHANGED <<disp, pc, busyLeft, hwRefreshes, firstPhase, pair, lk>>

\* the wait of _runCmd('softReset') ends; reset() disables low-power mode,
\* loads accelcfg.dat and applies it
ResetLoad ==
    /\ acc.pc = "cmdWait"
    /\ acc.call = "reset"
    /\ acc.rdyLeft = 0
    /\ \E n \in FileLens :
          \E failAt \in FailOffsets(n) :
             \E m \in { resetLoad(PollDone(Now(acc)), FileContent(n), failAt) } :
                 acc' = [Goes(acc, m, IF m.exc = "" THEN "settle" ELSE Rest(acc))
                           EXCEPT !.cfgLen = n, !.failAt = failAt]
    /\ UNCHANGED <<disp, pc, busyLeft, hwRefreshes, firstPhase, pair, lk>>

\* after the 150 ms, reset() reads the internal status
ResetStatus ==
    /\ acc.pc = "settle"
    /\ \E st \in StatusCases :
          \E m \in { resetStatus(Now(acc), st) } :
              acc' = Goes(acc, m, IF m.exc = "" THEN "defaults" ELSE Rest(acc))
    /\ UNCHANGED <<disp, pc, busyLeft, hwRefreshes, firstPhase, pair, lk>>

\* reset() writes the default settings and enables low-power mode
ResetDefaults ==
    /\ acc.pc = "defaults"
    /\ \E st1 \in StatusCases, st2 \in StatusCases, st3 \in StatusCases :
          \E m \in { resetDefaults(Now(acc), st1, st2, st3) } :
              acc' = [Goes(acc, m, IF m.exc = "" THEN "idle" ELSE Rest(acc))
                        EXCEPT !.built = acc.built \/ m.exc = ""]
    /\ UNCHANGED <<disp, pc, busyLeft, hwRefreshes, firstPhase, pair, lk>>

\* _runCmd(cmd): straight to the command for 'softReset', else the first wait
RunCmd ==
    /\ acc.pc = "idle"
    /\ \E cmd \in CmdArgs, b \in RdyBudgets :
          IF cmd.chars = softReset
            THEN acc' = [Called(acc, "_runCmd", runCmdIssue(Running(acc.chip), cmd), "cmdWait")
                           EXCEPT !.key = cmd, !.rdyLeft = b]
            ELSE acc' = [Called(acc, "_runCmd", Running(acc.chip), "preWait")
                           EXCEPT !.key = cmd, !.rdyLeft = b]
    /\ UNCHANGED <<disp, pc, busyLeft, hwRefreshes, firstPhase, pair, lk>>

\* the first wait ends: the command is looked up and written
RunCmdIssue ==
    /\ acc.pc = "preWait"
    /\ acc.rdyLeft = 0
    /\ \E b \in RdyBudgets :
          \E m \in { runCmdIssue(PollDone(Now(acc)), acc.key) } :
              acc' = IF m.exc # "" THEN Goes(acc, m, "idle")
                     ELSE [Goes(acc, m, "cmdWait") EXCEPT !.rdyLeft = b]
    /\ UNCHANGED <<disp, pc, busyLeft, hwRefreshes, firstPhase, pair, lk>>

\* the second wait ends and _runCmd returns
RunCmdFinish ==
    /\ acc.pc = "cmdWait"
    /\ acc.call = "_runCmd"
    /\ acc.rdyLeft = 0
    /\ acc' = Goes(acc, PollDone(Now(acc)), "idle")
    /\ UNCHANGED <<disp, pc, busyLeft, hwRefreshes, firstPhase, pair, lk>>

SetDataRate ==
    /\ acc.pc = "idle"
    /\ \E k \in DataRateKeys, st \in StatusCases :
          acc' = [Called(acc, "dataRate", dataRateSet(Running(acc.chip), k, st), "idle")
                    EXCEPT !.key = k]
    /\ UNCHANGED <<disp, pc, busyLeft, hwRefreshes, firstPhase, pair, lk>>

SetBandwidthParameter ==
    /\ acc.pc = "idle"
    /\ \E k \in BandwidthKeys, st \in StatusCases :
          acc' = [Called(acc, "bandwidthParameter",
                         bandwidthParameterSet(Running(acc.chip), k, st), "idle")
                    EXCEPT !.key = k]
    /\ UNCHANGED <<disp, pc, busyLeft, hwRefreshes, firstPhase, pair, lk>>

SetAccelerationRange ==
    /\ acc.pc = "idle"
    /\ \E k \in RangeKeys, st \in StatusCases :
          acc' = [Called(acc, "accelerationRange",
                         accelerationRangeSet(Running(acc.chip), k, st), "idle")
                    EXCEPT !.key = k]
    /\ UNCHANGED <<disp, pc, busyLeft, hwRefreshes, firstPhase, pair, lk>>

SetLowPowerMode ==
    /\ acc.pc = "idle"
    /\ \E v \in {0, 1} :
          acc' = [Called(acc, "lowPowerMode", lowPowerModeSet(Running(acc.chip), v), "idle")
                    EXCEPT !.value = v]
    /\ UNCHANGED <<disp, pc, busyLeft, hwRefreshes, firstPhase, pair, lk>>

AccNext ==
    \/ ResetBegin
    \/ PollBusy
    \/ ResetLoad
    \/ ResetStatus
    \/ ResetDefaults
    \/ RunCmd
    \/ RunCmdIssue
    \/ RunCmdFinish
    \/ SetDataRate
    \/ SetBandwidthParameter
    \/ SetAccelerationRange
    \/ SetLowPowerMode

AccSpec == AccInit /\ [][AccNext]_vars

\* the steps of a call that is inside one of the waits of _runCmd: another
\* pass of the loop, or what follows the loop once the flag was read set
WaitStep == PollBusy \/ ResetLoad \/ RunCmdIssue \/ RunCmdFinish

\* a call in progress keeps running: each pass of a wait is eventually
\* followed by the next pass or by the statement after the loop
AccLiveSpec == AccSpec /\ WF_vars(WaitStep)

-----------------------------------------------------------------------------
(* The feature window on its own: one call of the _featureAddress setter or *)
(* of _loadMainConfig on an object whose chip is in any power mode.         *)

LoaderInit ==
    /\ disp = DisplayInit
    /\ pc = "idle"
    /\ busyLeft = 0
    /\ hwRefreshes = 0
    /\ firstPhase = "pristine"
    /\ pair = <<DisplayInit, DisplayInit>>
    /\ lk = [table |-> <<>>, key |-> NoneKey, result |-> Pending, back |-> Pending]
    /\ acc \in { [AccelerometerNew(c) EXCEPT !.pc = "idle", !.built = TRUE] :
                    c \in PowerOnChips }

SetFeatureAddress ==
    /\ acc.pc = "idle"
    /\ acc.call = ""
    /\ \E v \in AddressArgs :
          acc' = [Called(acc, "_featureAddress", _featureAddressSet(Running(acc.chip), v), "idle")
                    EXCEPT !.value = v]
    /\ UNCHANGED <<disp, pc, busyLeft, hwRefreshes, firstPhase, pair, lk>>

LoadMainConfig ==
    /\ acc.pc = "idle"
    /\ acc.call = ""
    /\ \E n \in CfgLens :
          \E failAt \in FailOffsets(n) :
             acc' = [Called(acc, "_loadMainConfig",
                            _loadMainConfig(Running(acc.chip), FileContent(n), failAt), "idle")
                       EXCEPT !.cfgLen = n, !.failAt = failAt]
    /\ UNCHANGED <<disp, pc, busyLeft, hwRefreshes, firstPhase, pair, lk>>

LoaderNext == SetFeatureAddress \/ LoadMainConfig

LoaderSpec == LoaderInit /\ [][LoaderNext]_vars

(* errorMessage on its own: the status registers hold any combination of    *)
(* the flags and one of the internal-status codes, and the property is read *)
(* once.                                                                    *)

\* what the status registers may hold: every flag clear or set, the error
\* code 0 or not, the internal status one of the codes 0..5
AllStatus ==
    [ auxErr : {0, 1}, fifoErr : {0, 1}, reserved5 : {0, 1}, errorCode : {0, 1},
      cmdErr : {0, 1}, fatalErr : {0, 1}, odrHighError : {0, 1},
      odr50hzError : {0, 1}, axesRemapError : {0, 1}, internalStatus : 0..5,
      intErr1 : {0, 1}, intErr2 : {0, 1} ]

ErrorInit ==
    /\ disp = DisplayInit
    /\ pc = "idle"
    /\ busyLeft = 0
    /\ hwRefreshes = 0
    /\ firstPhase = "pristine"
    /\ pair = <<DisplayInit, DisplayInit>>
    /\ lk = [table |-> <<>>, key |-> NoneKey, result |-> Pending, back |-> Pending]
    /\ acc \in [ pc : {"idle"}, call : {""}, st : AllStatus, error : {FALSE},
                 msg : {<<>>}, log : {<<>>} ]

\* a caller reads accel.errorMessage
ReadErrorMessage ==
    /\ acc.pc = "idle"
    /\ acc.call = ""
    /\ acc' = [acc EXCEPT !.call = "errorMessage", !.error = error(acc.st),
                          !.msg = errorMessage(acc.st),
                          !.log = errorMessageReads(acc.st)]
    /\ UNCHANGED <<disp, pc, busyLeft, hwRefreshes, firstPhase, pair, lk>>

ErrorSpec == ErrorInit /\ [][ReadErrorMessage]_vars

-----------------------------------------------------------------------------
(* Reading a command sequence the way displayio does: a command byte, a     *)
(* length byte whose top bit (DELAY) announces a trailing delay byte, the   *)
(* parameter bytes, and the delay byte if announced.                        *)

RECURSIVE ParseFrom(_, _)
ParseFrom(bytes, i) ==
    IF i + 1 > Len(bytes) THEN <<>>
    ELSE LET n == bytes[i + 1] % DELAY
             hasDelay == bytes[i + 1] >= DELAY
         IN  << [cmd |-> bytes[i],
                 params |-> SubSeq(bytes, i + 2, i + 1 + n),
                 delay |-> hasDelay] >>
             \o ParseFrom(bytes, i + 2 + n + (IF hasDelay THEN 1 ELSE 0))

Commands(bytes) == ParseFrom(bytes, 1)

\* the parameter lists of the commands cmd of a sequence, in order
ParamsOf(bytes, cmd) ==
    LET sel == SelectSeq(Commands(bytes), LAMBDA c : c.cmd = cmd)
    IN  [k \in 1..Len(sel) |-> sel[k].params]

\* every update-sequence-control command of the sequence carries mode byte m,
\* and there is at least one
AllUpdateModes(bytes, m) ==
    LET ps == ParamsOf(bytes, CMD_UPDATE_SEQUENCE)
    IN  /\ Len(ps) >= 1
        /\ \A k \in 1..Len(ps) : ps[k] = <<m>>

\* the commands of block occur consecutively in cs, starting at position i
BlockAt(cs, block, i) ==
    /\ i >= 1
    /\ i + Len(Commands(block)) - 1 <= Len(cs)
    /\ SubSeq(cs, i, i + Len(Commands(block)) - 1) = Commands(block)

HasBlock(bytes, block) ==
    \E i \in 1..Len(Commands(bytes)) : BlockAt(Commands(bytes), block, i)

\* LUT override block, then light-mode ghost block, then (after the first
\* panel-colour command of the header) two more panel-colour commands
LutGhostFlashInOrder(bytes) ==
    LET cs == Commands(bytes)
    IN  \E a \in 1..Len(cs) :
          /\ BlockAt(cs, LutOverrideBlock, a)
          /\ \E b \in (a + 1)..Len(cs) :
                /\ BlockAt(cs, GhostBlockLight, b)
                /\ \E e \in (b + 3)..Len(cs) :
                      /\ cs[e].cmd = CMD_PANEL_COLOURS
                      /\ \E f \in (e + 1)..Len(cs) : cs[f].cmd = CMD_PANEL_COLOURS

NoLutGhostFlash(bytes) ==
    /\ ~HasBlock(bytes, LutOverrideBlock)
    /\ ~HasBlock(bytes, GhostBlockLight)
    /\ Len(ParamsOf(bytes, CMD_PANEL_COLOURS)) = 1

-----------------------------------------------------------------------------
(* Claims about the Display driver *)

\* C1: as long as no caller writes initialRefresh, it is true in every state
\* from construction up to the first refresh() whose hardware refresh
\* succeeds, through all busy retries, and false when that refresh() returns.
C1_InitialRefreshUntilFirstRefresh ==
    /\ [](firstPhase = "pristine" => initialRefresh(disp))
    /\ [][firstPhase = "pristine" /\ firstPhase' = "done"
            => pc = "retry" /\ pc' = "idle" /\ ~initialRefresh(disp')]_vars

\* the first refresh() has returned after a successful hardware refresh, with
\* fastRefresh off and fullRefresh on, and initialRefresh is now false
C1_Witness ==
    /\ firstPhase = "done"
    /\ pc = "idle"
    /\ hwRefreshes = 1
    /\ ~fastRefresh(disp)
    /\ disp._fullRefresh
    /\ ~initialRefresh(disp)

\* C2: the sequence built during the first refresh() after construction has
\* the slow/full mode byte in every update-sequence-control command, whatever
\* darkMode, greyMode, invertBorder, fastRefresh and fullRefresh were set to.
C2_FirstSequenceIsSlow ==
    (firstPhase = "pristine" /\ pc = "retry")
        => /\ disp.display.calls = 1
           /\ disp.display.seq = disp.updateSequence
           /\ AllUpdateModes(disp.updateSequence, SLOW_UPDATE)

\* inside the first refresh(), with fastRefresh on and fullRefresh off
C2_Witness ==
    /\ firstPhase = "pristine"
    /\ pc = "retry"
    /\ fastRefresh(disp)
    /\ ~disp._fullRefresh
    /\ darkMode(disp)
    /\ greyMode(disp)
    /\ invertBorder(disp)
    /\ AllUpdateModes(disp.updateSequence, SLOW_UPDATE)

\* the flags a freshly constructed driver has, apart from initialRefresh
ConstructionFlags(d) ==
    fastRefresh(d) /\ ~d._fullRefresh /\ ~darkMode(d) /\ ~greyMode(d)

\* C5 as stated: a driver with fastRefresh on, fullRefresh, darkMode and
\* greyMode off builds a sequence with the LUT override block, the light
\* ghost-suppression block and the double-flash panel-colour pair, in order.
C5_Original ==
    (~disp.modeChanged /\ ConstructionFlags(disp))
        => LutGhostFlashInOrder(disp.updateSequence)

\* C5 amended: with those flags the built sequence has the three blocks in
\* that order once initialRefresh is false; the sequence built while
\* initialRefresh is true (the first refresh after construction) has none.
C5_BlocksOnceInitialCleared ==
    (~disp.modeChanged /\ ConstructionFlags(disp))
        => IF initialRefresh(disp)
             THEN NoLutGhostFlash(disp.updateSequence)
             ELSE LutGhostFlashInOrder(disp.updateSequence)

\* a later refresh() of a driver with the construction-time flags
C5_Witness ==
    /\ pc = "retry"
    /\ firstPhase = "done"
    /\ ConstructionFlags(disp)
    /\ ~initialRefresh(disp)
    /\ ~disp.modeChanged
    /\ LutGhostFlashInOrder(disp.updateSequence)

\* C6: whenever fullRefresh is true when the sequence is built, every
\* update-sequence-control byte of the sequence is the slow/full mode byte.
C6_FullRefreshIsSlow ==
    (~disp.modeChanged /\ fullRefresh(disp))
        => AllUpdateModes(disp.updateSequence, SLOW_UPDATE)

\* C7: refresh() called with the dirty flag clear makes no call of
\* update_refresh_mode and leaves updateSequence alone; called with the flag
\* set it rebuilds and applies exactly once before the first hardware refresh
\* attempt; the retry loop never rebuilds or applies.
C7_LazyRebuild ==
    [][ /\ (pc = "idle" /\ pc' = "retry" /\ ~disp.modeChanged)
            => /\ disp'.display = disp.display
               /\ disp'.updateSequence = disp.updateSequence
        /\ (pc = "idle" /\ pc' = "retry" /\ disp.modeChanged)
            => /\ disp'.display.calls = 1
               /\ disp'.display.seq = BuildSequence(disp)
               /\ disp'.updateSequence = BuildSequence(disp)
               /\ ~disp'.modeChanged
        /\ (pc = "retry")
            => /\ disp'.updateSequence = disp.updateSequence
               /\ disp'.display.seq = disp.display.seq
               /\ disp'.display.delay = disp.display.delay
               /\ (pc' = "retry" => disp'.display.calls = disp.display.calls)
      ]_vars

\* a refresh() that found the flag clear, in its retry loop, after a busy answer
C7_Witness ==
    /\ pc = "retry"
    /\ disp.display.calls = 0
    /\ busyLeft = MaxBusy - 1
    /\ disp.updateSequence # <<>>

\* C8: refresh() retries without limit: if the controller is busy only
\* finitely often, refresh() returns after exactly one successful hardware
\* refresh; if it is busy for ever, refresh() neither returns nor raises.
C8_RetryUntilSuccess ==
    /\ (pc = "retry" /\ busyLeft # Forever) ~> (pc = "idle" /\ hwRefreshes = 1)
    /\ [][pc = "retry" /\ busyLeft = Forever
            => pc' = "retry" /\ busyLeft' = Forever]_vars
    /\ [][pc = "retry" /\ pc' = "idle"
            => busyLeft = 0 /\ hwRefreshes = 0 /\ hwRefreshes' = 1]_vars

\* a refresh() in its loop with the largest number of busy answers still to come
C8_Witness ==
    /\ pc = "retry"
    /\ busyLeft = MaxBusy
    /\ hwRefreshes = 0


-----------------------------------------------------------------------------
(* Claims about the sequence builder as a function of the settings *)

\* the window as the driver stores it for the window commands
StoredWindow(d) ==
    <<d.X_WINDOW_START, d.X_WINDOW_END, d.Y_WINDOW_START, d.Y_WINDOW_END>>

\* the six inputs the sequence is said to depend on
SixInputs(d) ==
    <<darkMode(d), greyMode(d), fastRefresh(d), fullRefresh(d), initialRefresh(d),
      StoredWindow(d)>>

BothBuilt == ~Configuring(pair[1]) /\ ~Configuring(pair[2])

\* C3 as stated: two builds with equal darkMode, greyMode, fastRefresh,
\* fullRefresh, initialRefresh and window give byte-identical sequences,
\* whatever invertBorder is.
C3_Original ==
    (BothBuilt /\ SixInputs(pair[1]) = SixInputs(pair[2]))
        => pair[1].updateSequence = pair[2].updateSequence

\* C3 amended: two builds with equal darkMode, greyMode, invertBorder,
\* fastRefresh, fullRefresh, initialRefresh and stored window bounds give
\* byte-identical sequences; invertBorder is an input (the border byte).
C3_SequenceDeterminedBySettings ==
    (/\ BothBuilt
     /\ SixInputs(pair[1]) = SixInputs(pair[2])
     /\ invertBorder(pair[1]) = invertBorder(pair[2]))
        => pair[1].updateSequence = pair[2].updateSequence

\* two drivers that differ in the rest of their state (the fullRefresh setting
\* behind an initialRefresh that is on, and the window columns in pixels) have
\* equal inputs, dark mode and an inverted border, and both have built
C3_Witness ==
    /\ BothBuilt
    /\ SixInputs(pair[1]) = SixInputs(pair[2])
    /\ invertBorder(pair[1]) = invertBorder(pair[2])
    /\ darkMode(pair[1])
    /\ invertBorder(pair[1])
    /\ pair[1]._fullRefresh # pair[2]._fullRefresh
    /\ pair[1].FIRST_COLUMN # pair[2].FIRST_COLUMN
    /\ pair[1].updateSequence = pair[2].updateSequence

\* the sequence a driver would build after one more property write
Changes(d, e) == BuildSequence(e) # BuildSequence(d)

RowsOf(w) == <<w[2], w[4]>>

-----------------------------------------------------------------------------
(* Claims about the LookupTable *)

SettingTables ==
    { normalise(OptsContent[i].name) : i \in 1..3 }

\* C9: for every key of the data-rate, bandwidth and acceleration-range
\* tables, getkey(table, lookup(table, key)) succeeds and returns that key.
C9_GetkeyInvertsLookup ==
    (/\ normalise(lk.table) \in SettingTables
     /\ lk.result.kind = "ok"
     /\ lk.back.kind # "pending")
        => /\ lk.back.kind = "ok"
           /\ lk.back.key = lk.result.key

\* the cases in which lookup(table, key) is said to fail
MustFail(table, key) ==
    \/ normalise(table) \notin DOMAIN allData
    \/ key.isNone
    \/ key.chars = <<>>
    \/ /\ allData[normalise(table)].type = "numeric"
       /\ LET t == allData[normalise(table)]
              u == stripUnit(t, normalise(key.chars))
          IN  \/ u = <<>>
              \/ ~float(stripPrefix(u)).ok
              \/ \A p \in t.values :
                    p[1] # Lit(Scale(float(stripPrefix(u)).num, scalarOf(u)))

\* C10: lookup fails with an error and returns no code when the table does
\* not exist, the key is empty or None, the key of a numeric table is not a
\* number once unit and metric prefix are stripped (a key that is only the
\* unit included), or the scaled value has no code in the table.
C10_LookupRejects ==
    (lk.result.kind # "pending" /\ MustFail(lk.table, lk.key))
        => /\ lk.result.kind = "raise"
           /\ lk.result.code = NoCode
           /\ lk.result.error \in {"RuntimeError", "IndexError"}

\* a lookup in a numeric table with a key that is only the unit has failed
C10_Witness ==
    /\ lk.result.kind = "raise"
    /\ normalise(lk.table) \in SettingTables
    /\ ~lk.key.isNone
    /\ lk.key.chars # <<>>
    /\ stripUnit(allData[normalise(lk.table)], normalise(lk.key.chars)) = <<>>

-----------------------------------------------------------------------------
(* Properties of the Accelerometer driver.                                  *)

\* the bus writes of a call, and those to one field
WritesOf(log) == SelectSeq(log, LAMBDA e : e.op = "write")
WritesTo(log, f) == SelectSeq(log, LAMBDA e : e.op = "write" /\ e.field = f)

\* the codes of one table of Accelerometer.opts
CodesOf(table) == { p[2] : p \in allData[normalise(table)].values }

\* C11: every value the dataRate, bandwidthParameter and accelerationRange
\* setters write to the ODR, bandwidth and range fields is a code of the
\* corresponding table (ODR 1..12, bandwidth 0..7, range 0..3), and the
\* driver writes these fields in no other method.
C11_SettersWriteTableCodes ==
    /\ CodesOf(<<"d", "a", "t", "a", "r", "a", "t", "e">>) = 1..12
    /\ CodesOf(<<"b", "a", "n", "d", "w", "i", "d", "t", "h">>) = 0..7
    /\ CodesOf(<<"a", "c", "c", "e", "l", "e", "r", "a", "t", "i", "o", "n",
                 "r", "a", "n", "g", "e">>) = 0..3
    /\ acc.pc # "none" =>
         \A i \in 1..Len(acc.log) :
            LET e == acc.log[i]
            IN  e.op = "write" =>
                  /\ e.field = "_accOdr" =>
                        e.val \in 1..12 /\ acc.call \in {"reset", "dataRate"}
                  /\ e.field = "_accBwp" =>
                        e.val \in 0..7 /\ acc.call \in {"reset", "bandwidthParameter"}
                  /\ e.field = "_accRange" =>
                        e.val \in 0..3 /\ acc.call \in {"reset", "accelerationRange"}

\* the dataRate setter, called with '1600hz', has written code 12
C11_Witness ==
    /\ acc.pc = "idle"
    /\ acc.call = "dataRate"
    /\ acc.key = StrKey(<<"1", "6", "0", "0", "h", "z">>)
    /\ acc.exc = ""
    /\ WritesTo(acc.log, "_accOdr") = <<Wr("_accOdr", 12)>>
    /\ acc.chip._accOdr = 12

\* C12: _loadMainConfig fails with an error, without writing any feature
\* data, for every buffer whose length is 0, is not a multiple of 8, or is at
\* least 0x2000.
C12_LoaderRejectsBadLength ==
    ( /\ acc.pc = "idle"
      /\ acc.call = "_loadMainConfig"
      /\ \/ acc.cfgLen = 0
         \/ acc.cfgLen % 8 # 0
         \/ acc.cfgLen >= 8192 )
        => /\ acc.exc # ""
           /\ WritesTo(acc.log, "_featuresIn") = <<>>

\* the chunks _loadMainConfig has gone through when it stops: all of them,
\* or those up to the one whose read-back differs
ChunksDone(a) ==
    IF a.failAt = NoMismatch THEN a.cfgLen \div 8 ELSE a.failAt \div 8 + 1

\* C13: the _featureAddress setter fails with ValueError and writes neither
\* address register for every value below 0 or above 0x2000 - 8, and accepts
\* every value in [0, 0x2000 - 8], writing both registers; consequently every
\* chunk offset _loadMainConfig passes to it for a buffer of valid length is
\* accepted: the loader never ends with the ValueError and has set the
\* address once for each chunk it went through.
C13_FeatureAddressRange ==
    /\ (acc.pc = "idle" /\ acc.call = "_featureAddress") =>
          IF acc.value < 0 \/ acc.value > 8192 - 8
            THEN /\ acc.exc = "ValueError: ACCEL: Invalid feature address"
                 /\ WritesOf(acc.log) = <<>>
            ELSE /\ acc.exc = ""
                 /\ WritesOf(acc.log) =
                       << Wr("_asicLsb", (acc.value \div 2) % 16),
                          Wr("_asicMsb", acc.value \div 32) >>
    /\ ( /\ acc.pc = "idle"
         /\ acc.call = "_loadMainConfig"
         /\ ~lowPowerMode(acc.chip)
         /\ acc.cfgLen % 8 = 0
         /\ acc.cfgLen < 8192 )
          => /\ acc.exc \in {"", "RuntimeError: ACCEL: Config verify failed."}
             /\ Len(WritesTo(acc.log, "_asicLsb")) = ChunksDone(acc)
             /\ Len(WritesTo(acc.log, "_asicMsb")) = ChunksDone(acc)

\* the loader has gone through a buffer of 0x2000 - 8 bytes, whose last
\* chunk is at the largest address the setter accepts
C13_Witness ==
    /\ acc.pc = "idle"
    /\ acc.call = "_loadMainConfig"
    /\ acc.cfgLen = 8192 - 8
    /\ acc.failAt = NoMismatch
    /\ acc.exc = ""
    /\ acc.chip._asicLsb = ((8192 - 16) \div 2) % 16
    /\ acc.chip._asicMsb = (8192 - 16) \div 32

\* C14: when reset() loads a config buffer of valid length on a bus whose
\* burst read-back does not match what was written, it fails with the
\* config-verify error, and then low-power mode is disabled, the init-control
\* register was never set to 0x01, the accelerometer-enable bit was not set,
\* and no default data rate, bandwidth or range was written.
C14_ResetVerifyFailure ==
    ( /\ acc.call = "reset"
      /\ acc.cfgLen > 0
      /\ acc.cfgLen % 8 = 0
      /\ acc.cfgLen < 8192
      /\ acc.failAt = 0 )
        => /\ acc.pc = "failed"
           /\ ~acc.built
           /\ acc.exc = "RuntimeError: ACCEL: Config verify failed."
           /\ ~lowPowerMode(acc.chip)
           /\ acc.chip._advPowerSave = 0
           /\ acc.chip._accPerfMode = 1
           /\ WritesTo(acc.log, "_initCtrl") = <<Wr("_initCtrl", 0)>>
           /\ acc.chip._initCtrl = 0
           /\ WritesTo(acc.log, "_accEn") = <<>>
           /\ acc.chip._accEn = 0
           /\ WritesTo(acc.log, "_accOdr") = <<>>
           /\ WritesTo(acc.log, "_accBwp") = <<>>
           /\ WritesTo(acc.log, "_accRange") = <<>>

\* reset() has failed on the read-back of the first chunk of a 16-byte file,
\* on a chip that was in low-power mode before
C14_Witness ==
    /\ acc.call = "reset"
    /\ acc.pc = "failed"
    /\ acc.cfgLen = 16
    /\ acc.failAt = 0
    /\ acc.exc = "RuntimeError: ACCEL: Config verify failed."
    /\ Len(WritesTo(acc.log, "_featuresIn")) = 1
    /\ acc.log[Len(acc.log)].op = "read"
    /\ acc.log[Len(acc.log)].field = "_featuresIn"
    /\ \E i \in 1..Len(acc.log) : acc.log[i] = Rd("_advPowerSave", 1)

\* the address writes and the burst transfers of a call, in bus order
FeatureTraffic(log) ==
    SelectSeq(log, LAMBDA e : \/ e.field = "_featuresIn"
                              \/ e.op = "write" /\ e.field \in {"_asicLsb", "_asicMsb"})

\* C15: _loadMainConfig goes through the 8-byte chunks in ascending offset
\* order; for each chunk it sets the feature address to the chunk's offset,
\* then burst-writes the 8 bytes, then reads them back; at the first chunk
\* whose read-back differs it raises the verify error, and no later chunk's
\* address or data is written.
C15_ChunksInOrder ==
    ( /\ acc.pc = "idle"
      /\ acc.call = "_loadMainConfig"
      /\ ~lowPowerMode(acc.chip)
      /\ acc.cfgLen % 8 = 0
      /\ acc.cfgLen < 8192 )
        => \E t \in { FeatureTraffic(acc.log) } :
              /\ Len(t) = 4 * ChunksDone(acc)
              /\ \A j \in 0..(ChunksDone(acc) - 1) :
                    /\ t[4 * j + 1] = Wr("_asicLsb", ((8 * j) \div 2) % 16)
                    /\ t[4 * j + 2] = Wr("_asicMsb", (8 * j) \div 32)
                    /\ t[4 * j + 3] =
                          WrBurst([i \in 1..8 |-> FileContent(acc.cfgLen)[8 * j + i]])
                    /\ t[4 * j + 4].op = "read"
                    /\ t[4 * j + 4].field = "_featuresIn"
                    /\ (t[4 * j + 4].data = t[4 * j + 3].data) <=> (8 * j # acc.failAt)
              /\ acc.exc = IF acc.failAt = NoMismatch THEN ""
                           ELSE "RuntimeError: ACCEL: Config verify failed."

\* the loader has stopped at the second chunk of a 16-byte buffer, whose
\* read-back differed
C15_Witness ==
    /\ acc.pc = "idle"
    /\ acc.call = "_loadMainConfig"
    /\ acc.cfgLen = 16
    /\ acc.failAt = 8
    /\ acc.exc = "RuntimeError: ACCEL: Config verify failed."
    /\ Len(WritesTo(acc.log, "_featuresIn")) = 2
    /\ acc.chip._asicLsb = 4

\* C16 as stated: when low-power mode is enabled, _loadMainConfig raises
\* without issuing any register read or write on the bus.
C16_Original ==
    ( /\ acc.pc = "idle"
      /\ acc.call = "_loadMainConfig"
      /\ lowPowerMode(acc.chip) )
        => /\ acc.exc = "RuntimeError: ACCEL: Cannot load config in low power mode."
           /\ acc.log = <<>>

\* C16: when low-power mode is enabled, _loadMainConfig raises, whatever the
\* buffer, without issuing any register write and without any feature-address
\* or feature-data transfer; its only bus traffic is the two register reads
\* by which the lowPowerMode getter finds the mode (the power-save bit, then
\* the performance-mode bit).
C16_LowPowerRejectedBeforeAnyWrite ==
    ( /\ acc.pc = "idle"
      /\ acc.call = "_loadMainConfig"
      /\ lowPowerMode(acc.chip) )
        => /\ acc.exc = "RuntimeError: ACCEL: Cannot load config in low power mode."
           /\ WritesOf(acc.log) = <<>>
           /\ FeatureTraffic(acc.log) = <<>>
           /\ acc.log = << Rd("_advPowerSave", 1), Rd("_accPerfMode", 0) >>

\* the loader was called in low-power mode with a buffer of one chunk and
\* has raised
C16_Witness ==
    /\ acc.pc = "idle"
    /\ acc.call = "_loadMainConfig"
    /\ lowPowerMode(acc.chip)
    /\ acc.cfgLen = 8
    /\ acc.exc = "RuntimeError: ACCEL: Cannot load config in low power mode."
    /\ Len(acc.log) = 2

\* the steps of reset() on the bus: the reads of the device ID, of the
\* internal status and of the feature data, and every write of a register
\* that reset() or a method it calls writes
ResetSteps(log) ==
    SelectSeq(log, LAMBDA e :
        \/ e.op = "read" /\ e.field \in {"_deviceId", "_internalStatus", "_featuresIn"}
        \/ e.op = "write" /\ e.field \in
              { "_cmd", "_advPowerSave", "_accPerfMode", "_initCtrl", "_featuresIn",
                "_accEn", "_accOdr", "_accBwp", "_accRange" })

\* the burst write and the matching read-back of each chunk of a file of n
\* bytes, chunk after chunk
ChunkTransfers(n) ==
    [ i \in 1..(2 * (n \div 8)) |->
        IF i % 2 = 1
          THEN WrBurst([k \in 1..8 |-> FileContent(n)[8 * ((i - 1) \div 2) + k]])
          ELSE RdBurst([k \in 1..8 |-> FileContent(n)[8 * ((i - 2) \div 2) + k]]) ]

\* C17: in every run of reset() that returns normally the steps happen in
\* this order: device-ID read, soft-reset command, low-power mode disabled,
\* init-control written 0x00, every config chunk written and verified,
\* init-control written 0x01, internal status read as 0x01, accelerometer
\* enabled, default data rate then bandwidth then range written, low-power
\* mode enabled; init-control is never written 0x01 before the last chunk
\* has been verified.
C17_ResetOrder ==
    ( /\ acc.call = "reset"
      /\ acc.pc = "idle" )
        => /\ acc.built
           /\ acc.exc = ""
           /\ ResetSteps(acc.log) =
                 << Rd("_deviceId", 19), Wr("_cmd", 182),
                    Wr("_advPowerSave", 0), Wr("_accPerfMode", 1),
                    Wr("_initCtrl", 0) >>
                 \o ChunkTransfers(acc.cfgLen)
                 \o << Wr("_initCtrl", 1), Rd("_internalStatus", 1), Wr("_accEn", 1),
                       Wr("_accOdr", 7), Wr("_accBwp", 1), Wr("_accRange", 0),
                       Wr("_advPowerSave", 1), Wr("_accPerfMode", 0) >>

\* reset() has returned normally after loading a file of two chunks, on a
\* chip that kept the command-ready flag clear for a while
C17_Witness ==
    /\ acc.call = "reset"
    /\ acc.pc = "idle"
    /\ acc.built
    /\ acc.cfgLen = 16
    /\ lowPowerMode(acc.chip)
    /\ acc.chip._accEn = 1
    /\ \E i \in 1..Len(acc.log) : acc.log[i] = Rd("_cmdRdy", 0)

\* how often an entry occurs in the traffic of a call
Count(log, e) == Len(SelectSeq(log, LAMBDA x : x = e))

\* reset() has read a device ID other than the BMA423's
IdMismatch(log) ==
    \E i \in 1..Len(log) :
        log[i].op = "read" /\ log[i].field = "_deviceId" /\ log[i].val # 19

\* reset() has read, after the 150 ms that follow the apply step, an
\* internal status other than 0x01
StatusNotReady(log) ==
    \E i \in 1..(Len(log) - 1) :
        /\ log[i] = Sleep(150000)
        /\ log[i + 1].op = "read"
        /\ log[i + 1].field = "_internalStatus"
        /\ log[i + 1].val # 1

\* C18: a failure of reset() at the device-ID check or at the status check
\* after the load ends the whole sequence.  On an ID mismatch no bus write at
\* all is issued.  When the internal status read after the apply step is not
\* 0x01, reset() raises the timeout error, the accelerometer is not enabled,
\* no default setting is written and low-power mode stays disabled.  reset()
\* repeats no step: the ID is read, the command written, the config applied
\* and the 150 ms waited at most once.
C18_ResetAborts ==
    acc.call = "reset" =>
        /\ IdMismatch(acc.log) =>
              /\ acc.pc = "failed"
              /\ acc.exc = "RuntimeError: ACCEL: Incorrect device ID"
              /\ WritesOf(acc.log) = <<>>
              /\ Len(acc.log) = 1
        /\ StatusNotReady(acc.log) =>
              /\ acc.pc = "failed"
              /\ acc.exc = "RuntimeError: ACCEL: Init timed out"
              /\ WritesTo(acc.log, "_accEn") = <<>>
              /\ acc.chip._accEn = 0
              /\ WritesTo(acc.log, "_accOdr") = <<>>
              /\ WritesTo(acc.log, "_accBwp") = <<>>
              /\ WritesTo(acc.log, "_accRange") = <<>>
              /\ ~lowPowerMode(acc.chip)
              /\ WritesTo(acc.log, "_advPowerSave") = <<Wr("_advPowerSave", 0)>>
              /\ WritesTo(acc.log, "_accPerfMode") = <<Wr("_accPerfMode", 1)>>
        /\ Len(SelectSeq(acc.log, LAMBDA e : e.field = "_deviceId")) <= 1
        /\ Len(WritesTo(acc.log, "_cmd")) <= 1
        /\ Count(acc.log, Wr("_initCtrl", 0)) <= 1
        /\ Count(acc.log, Wr("_initCtrl", 1)) <= 1
        /\ Count(acc.log, Sleep(150000)) <= 1
        /\ acc.pc = "failed" <=> acc.exc # ""

\* reset() has raised the timeout error on a chip that answered "not
\* initialized" after a file of one chunk was loaded and applied
C18_Witness ==
    /\ acc.call = "reset"
    /\ acc.pc = "failed"
    /\ acc.exc = "RuntimeError: ACCEL: Init timed out"
    /\ acc.msg = <<"Not initialized. ">>
    /\ acc.cfgLen = 8
    /\ StatusNotReady(acc.log)
    /\ acc.chip._initCtrl = 1

\* C19: _runCmd always terminates: each of its waits on the command-ready
\* flag, the one before the command is issued and the one after, ends, be it
\* because the flag is set or because a bounded number of polls is used up,
\* even if the chip never sets the flag.
C19_RunCmdTerminates ==
    (acc.pc \in {"preWait", "cmdWait"}) ~> (acc.pc \notin {"preWait", "cmdWait"})

\* the register field each validated setter writes
FieldOf ==
    [ dataRate |-> "_accOdr", bandwidthParameter |-> "_accBwp",
      accelerationRange |-> "_accRange" ]

\* the keys among the setters' arguments that have a code, with their codes
CodeOfKey ==
    [ k \in { StrKey(<<"5", "0", " ", "H", "z">>), StrKey(<<"1", "6", "0", "0", "h", "z">>),
              StrKey(<<"2", " ", "s", "a", "m", "p", "l", "e", "s">>),
              StrKey(<<"1", "2", "8">>),
              StrKey(<<"2", "g">>), StrKey(<<"1", "6", " ", "G">>) } |->
        IF k = StrKey(<<"5", "0", " ", "H", "z">>) THEN 7
        ELSE IF k = StrKey(<<"1", "6", "0", "0", "h", "z">>) THEN 12
        ELSE IF k = StrKey(<<"2", " ", "s", "a", "m", "p", "l", "e", "s">>) THEN 1
        ELSE IF k = StrKey(<<"1", "2", "8">>) THEN 7
        ELSE IF k = StrKey(<<"2", "g">>) THEN 0
        ELSE 3 ]

\* the chip's error condition, as the status reads of a call show it
ErrorSeen(log) ==
    \E i \in 1..Len(log) :
        /\ log[i].op = "read"
        /\ \/ log[i].field = "_errReg" /\ MaskDF(log[i].val) # 0
           \/ log[i].field = "_statusReg" /\ log[i].val # 1
           \/ log[i].field \in {"_intErr1", "_intErr2"} /\ log[i].val = 1

\* a call of one of the three validated setters, from its start to its end
SetterCall ==
    /\ acc.pc = "idle"
    /\ acc'.pc = "idle"
    /\ acc'.call \in DOMAIN FieldOf
    /\ acc' # acc

\* C20: each of the dataRate, bandwidthParameter and accelerationRange
\* setters validates the key through the lookup table first and runs the
\* pre-write check second: with an invalid key it raises before any status
\* register is read; with a valid key the check's reads come first and the
\* write of the field last.  If the key is invalid, or the chip's error
\* condition is true at the check, the setter raises, writes nothing, and the
\* field (like every other field) keeps its previous value.
C20_SetterValidatesThenChecks ==
    [][ SetterCall =>
          /\ acc'.key \notin DOMAIN CodeOfKey =>
                /\ acc'.exc \in {"RuntimeError", "IndexError"}
                /\ acc'.log = <<>>
          /\ acc'.key \in DOMAIN CodeOfKey =>
                /\ acc'.log # <<>>
                /\ acc'.log[1].op = "read"
                /\ acc'.log[1].field = "_errReg"
          /\ (acc'.key \in DOMAIN CodeOfKey /\ ErrorSeen(acc'.log)) =>
                acc'.exc = "RuntimeError: ACCEL: ERROR"
          /\ (acc'.key \in DOMAIN CodeOfKey /\ ~ErrorSeen(acc'.log)) =>
                /\ acc'.exc = ""
                /\ WritesOf(acc'.log) =
                      <<Wr(FieldOf[acc'.call], CodeOfKey[acc'.key])>>
                /\ acc'.log[Len(acc'.log)].op = "write"
                /\ acc'.chip[FieldOf[acc'.call]] = CodeOfKey[acc'.key]
          /\ acc'.exc # "" =>
                /\ WritesOf(acc'.log) = <<>>
                /\ acc'.chip = acc.chip
      ]_vars

\* dataRate = '1600hz' has raised at the pre-write check and the field still
\* holds the code of 50 Hz
C20_Witness ==
    /\ acc.pc = "idle"
    /\ acc.call = "dataRate"
    /\ acc.key = StrKey(<<"1", "6", "0", "0", "h", "z">>)
    /\ acc.exc = "RuntimeError: ACCEL: ERROR"
    /\ ErrorSeen(acc.log)
    /\ acc.chip._accOdr = 7

\* the texts of all the conditions that hold in st, in the order in which
\* errorMessage tests them
ConditionsOf(st) ==
       (IF st.auxErr = 1 THEN <<"Auxiliary sensor error. ">> ELSE <<>>)
    \o (IF st.fifoErr = 1 THEN <<"FIFO error. ">> ELSE <<>>)
    \o (IF st.cmdErr = 1 THEN <<"Command error. ">> ELSE <<>>)
    \o (IF st.fatalErr = 1 THEN <<"Fatal error. ">> ELSE <<>>)
    \o (IF st.errorCode # 0 THEN <<"Error in ACC_CONF register. ">> ELSE <<>>)
    \o (IF st.odrHighError = 1 THEN <<"ODR set too low for feature.">> ELSE <<>>)
    \o (IF st.odr50hzError = 1
          THEN <<"ODR requires a minimum of 50 Hz in power saving mode. ">> ELSE <<>>)
    \o (IF st.axesRemapError = 1 THEN <<"Axes remapped incorrectly. ">> ELSE <<>>)
    \o (IF st.internalStatus = 0 THEN <<"Not initialized. ">>
        ELSE IF st.internalStatus = 2 THEN <<"Initialization error. ">>
        ELSE IF st.internalStatus = 3 THEN <<"Invalid driver. ">>
        ELSE IF st.internalStatus = 4 THEN <<"Sensor stopped. ">>
        ELSE <<>>)
    \o (IF st.intErr1 = 1 THEN <<"Internal timeout.">> ELSE <<>>)
    \o (IF st.intErr2 = 1 THEN <<"Internal error.">> ELSE <<>>)

\* C21: errorMessage describes all of the error conditions that are set, in
\* the order in which they are checked: it is 'No error.' exactly when error
\* is false, 'Unknown error.' exactly when error is true and no condition
\* holds, and otherwise the texts of every condition that holds (auxiliary,
\* FIFO, command, fatal, ACC_CONF error code, the two ODR errors, axis remap,
\* the internal-status code, each internal interrupt-error flag), in that
\* order.
C21_ErrorMessageDescribesAll ==
    acc.call = "errorMessage" =>
        /\ acc.msg = <<"No error.">> <=> ~acc.error
        /\ acc.msg = <<"Unknown error.">> <=> (acc.error /\ ConditionsOf(acc.st) = <<>>)
        /\ (acc.error /\ ConditionsOf(acc.st) # <<>>) => acc.msg = ConditionsOf(acc.st)

-----------------------------------------------------------------------------
(* Properties of the metric prefixes of LookupTable.                        *)

\* the power of ten each prefix letter stands for
PowerOfTen ==
    [ c \in {"m", "u", "n", "p", "k", "M", "G", "T"} |->
        IF c = "m" THEN -3 ELSE IF c = "u" THEN -6 ELSE IF c = "n" THEN -9
        ELSE IF c = "p" THEN -12 ELSE IF c = "k" THEN 3 ELSE IF c = "M" THEN 6
        ELSE IF c = "G" THEN 9 ELSE 12 ]

\* C22: in a numeric-table lookup, a metric-prefix letter at the end of the
\* key (after the unit is stripped) scales the numeral by the power of ten of
\* that letter, with m, u, n, p, k, M, G, T meaning 10^-3, 10^-6, 10^-9,
\* 10^-12, 10^3, 10^6, 10^9, 10^12, upper-case M and lower-case m being
\* different: the lookup answers what the table holds for the scaled value.
C22_PrefixScalesNumeral ==
    (lk.result.kind # "pending" /\ "prefix" \in DOMAIN lk) =>
        lk.result = find(allData[normalise(lk.table)],
                         Lit(Scale(float(lk.numeral).num, PowerOfTen[lk.prefix])))

-----------------------------------------------------------------------------
(* Claims about the frame delay and the window commands *)

\* C23: in every rebuild, the one for the initial refresh included, the frame
\* delay handed to update_refresh_mode matches the mode byte of the sequence
\* handed with it: 5.0 s with the slow/full byte, 0.2 s with the fast/partial
\* byte.
C23_DelayMatchesMode ==
    disp.display.seq # <<>> =>
        /\ AllUpdateModes(disp.display.seq, SLOW_UPDATE)
              => disp.display.delay = SLOW_UPDATE_TIME
        /\ AllUpdateModes(disp.display.seq, FAST_UPDATE)
              => disp.display.delay = FAST_UPDATE_TIME

\* the parameters of the X-window and Y-window commands of a sequence
XWindowOf(bytes) == ParamsOf(bytes, CMD_X_WINDOW)
YWindowOf(bytes) == ParamsOf(bytes, CMD_Y_WINDOW)

\* a 16-bit value as two bytes, low byte first
Le16(y) == <<y % 256, y \div 256>>

\* C24: after setWindow(x1, y1, x2, y2) with 0 <= x1 <= x2 <= 199, the
\* sequence built next carries x1 div 8 and x2 div 8 in its X-window command
\* and y1, y2 as little-endian 16-bit values in its Y-window command.
C24_WindowBytes ==
    [][ \A w \in WindowArgs :
          disp' = setWindow(disp, w[1], w[2], w[3], w[4]) =>
              /\ XWindowOf(BuildSequence(disp')) = << <<w[1] \div 8, w[3] \div 8>> >>
              /\ YWindowOf(BuildSequence(disp')) = << Le16(w[2]) \o Le16(w[4]) >>
      ]_vars

\* the window bytes of the sequence a driver would build
WindowBytes(d) == <<XWindowOf(BuildSequence(d)), YWindowOf(BuildSequence(d))>>

\* C25: after any setWindow calls followed by clearWindow(), the window bytes
\* of the sequence built next equal those built from the construction-time
\* defaults: column bytes 0 and 24, rows 0 to 199.
C25_ClearWindowRestoresDefaults ==
    [][ disp' = clearWindow(disp) =>
          /\ WindowBytes(disp') = WindowBytes(DisplayInit)
          /\ WindowBytes(disp') =
                << << <<0, (WIDTH - 1) \div 8>> >>, << Le16(0) \o Le16(HEIGHT - 1) >> >>
      ]_vars

-----------------------------------------------------------------------------
(* Claims about the blocks of the built sequence *)

\* the positions in cs of the LUT override block, of a ghost-suppression
\* block, of the window commands and of the double-flash second pass
LutPos(cs) == { i \in 1..Len(cs) : BlockAt(cs, LutOverrideBlock, i) }

GhostLightPos(cs) == { i \in 1..Len(cs) : BlockAt(cs, GhostBlockLight, i) }

GhostDarkPos(cs) == { i \in 1..Len(cs) : BlockAt(cs, GhostBlockDark, i) }

\* X window, Y window, X offset, Y offset, update-sequence control
WindowPos(cs) ==
    { i \in 1..(Len(cs) - 4) :
        [k \in 1..5 |-> cs[i + k - 1].cmd]
          = <<CMD_X_WINDOW, CMD_Y_WINDOW, CMD_X_OFFSET, CMD_Y_OFFSET, CMD_UPDATE_SEQUENCE>> }

\* panel colours, update control, activate, panel colours, update control
FlashPos(cs) ==
    { i \in 1..(Len(cs) - 4) :
        [k \in 1..5 |-> cs[i + k - 1].cmd]
          = <<CMD_PANEL_COLOURS, CMD_UPDATE_SEQUENCE, CMD_MASTER_ACTIVATE,
              CMD_PANEL_COLOURS, CMD_UPDATE_SEQUENCE>> }

\* every position of A is before every position of B
Before(A, B) == \A a \in A, b \in B : a < b

BlocksAsFlagsSay(d, cs) ==
    /\ (LutPos(cs) # {}) <=> (fastRefresh(d) /\ ~d._fullRefresh /\ ~initialRefresh(d))
    /\ (FlashPos(cs) # {}) <=> (fastRefresh(d) /\ ~d._fullRefresh /\ ~initialRefresh(d))
    /\ (GhostLightPos(cs) # {}) <=> (~d._fullRefresh /\ ~initialRefresh(d) /\ ~darkMode(d))
    /\ (GhostDarkPos(cs) # {}) <=> (~d._fullRefresh /\ ~initialRefresh(d) /\ darkMode(d))
    /\ Cardinality(WindowPos(cs)) = 1
    /\ Before(LutPos(cs), GhostLightPos(cs) \cup GhostDarkPos(cs))
    /\ Before(LutPos(cs) \cup GhostLightPos(cs) \cup GhostDarkPos(cs), WindowPos(cs))
    /\ Before({ i + 4 : i \in WindowPos(cs) }, FlashPos(cs))

\* C26: in every built sequence the LUT override block and the double-flash
\* second pass are present exactly when fastRefresh is on and neither
\* fullRefresh nor initialRefresh is; a ghost-suppression block is present
\* exactly when neither fullRefresh nor initialRefresh is on, the light one
\* when darkMode is off and the dark one when it is on; the order is LUT
\* override, ghost suppression, window and update-control commands,
\* double-flash pass.
C26_BlocksByFlags ==
    (disp.updateSequence # <<>> /\ ~disp.modeChanged)
        => BlocksAsFlagsSay(disp, Commands(disp.updateSequence))

\* a built sequence of a fast driver in dark mode with all three blocks, and
\* one of a driver with fullRefresh on with none
C26_Witness ==
    /\ disp.updateSequence # <<>>
    /\ ~disp.modeChanged
    /\ fastRefresh(disp) /\ ~fullRefresh(disp) /\ darkMode(disp)
    /\ LutPos(Commands(disp.updateSequence)) # {}
    /\ GhostDarkPos(Commands(disp.updateSequence)) # {}
    /\ FlashPos(Commands(disp.updateSequence)) # {}

\* the panel-colour bytes of a sequence, in order: the one of the header and,
\* if there is a second pass, its two
PanelColours(bytes) ==
    [k \in 1..Len(ParamsOf(bytes, CMD_PANEL_COLOURS)) |->
        ParamsOf(bytes, CMD_PANEL_COLOURS)[k][1]]

HasSecondPass(d) ==
    /\ d.updateSequence # <<>>
    /\ ~d.modeChanged
    /\ FlashPos(Commands(d.updateSequence)) # {}

\* C27 as stated: in the double-flash second pass the first panel-colour
\* command carries a byte different from the one at the start of the
\* sequence and the second restores exactly that byte, whatever darkMode and
\* greyMode are.
C27_Original ==
    HasSecondPass(disp) =>
        /\ Len(PanelColours(disp.updateSequence)) = 3
        /\ PanelColours(disp.updateSequence)[2] # PanelColours(disp.updateSequence)[1]
        /\ PanelColours(disp.updateSequence)[3] = PanelColours(disp.updateSequence)[1]

\* C27 amended: the second panel-colour command of the second pass always
\* restores the byte of the start of the sequence; the first carries a
\* different byte exactly when greyMode is off, and in greyMode it carries
\* the same byte, whatever darkMode is.
C27_SecondPassColours ==
    HasSecondPass(disp) =>
        /\ Len(PanelColours(disp.updateSequence)) = 3
        /\ (PanelColours(disp.updateSequence)[2] # PanelColours(disp.updateSequence)[1])
              <=> ~greyMode(disp)
        /\ PanelColours(disp.updateSequence)[3] = PanelColours(disp.updateSequence)[1]
        /\ PanelColours(disp.updateSequence)[1] = disp.COLOUR_MODE

\* a second pass built in dark mode with greyMode on: the first command of
\* the pass repeats the byte of the header and the second carries it again
C27_Witness ==
    /\ HasSecondPass(disp)
    /\ darkMode(disp)
    /\ greyMode(disp)
    /\ PanelColours(disp.updateSequence)[2] = RED_INVERT + BLACK_ENABLE
    /\ PanelColours(disp.updateSequence)[3] = PanelColours(disp.updateSequence)[1]

-----------------------------------------------------------------------------
(* Claims about the dirty flag *)

\* every property write and window call a caller can make leaves the flag set
SettersMarkDirty(d) ==
    /\ \A v \in BOOLEAN :
          /\ darkModeSet(d, v).modeChanged
          /\ greyModeSet(d, v).modeChanged
          /\ invertBorderSet(d, v).modeChanged
          /\ fastRefreshSet(d, v).modeChanged
          /\ fullRefreshSet(d, v).modeChanged
          /\ initialRefreshSet(d, v).modeChanged
    /\ \A w \in WindowArgs : setWindow(d, w[1], w[2], w[3], w[4]).modeChanged
    /\ clearWindow(d).modeChanged

\* what update_refresh_mode was last called with is what a rebuild would
\* call it with now
AppliedIsCurrent(d) ==
    /\ d.display.seq = _rebuildUpdateSequence(d).display.seq
    /\ d.display.delay = _rebuildUpdateSequence(d).display.delay
    /\ d.updateSequence = _rebuildUpdateSequence(d).updateSequence

\* C28: every setter of darkMode, greyMode, invertBorder, fastRefresh,
\* fullRefresh and initialRefresh, and setWindow and clearWindow, sets the
\* dirty flag; so in every reachable state with the flag clear, the sequence
\* and frame delay last handed to update_refresh_mode are what
\* _rebuildUpdateSequence would produce from the current flags and window.
C28_CleanMeansCurrent ==
    /\ SettersMarkDirty(disp)
    /\ ~disp.modeChanged => AppliedIsCurrent(disp)

\* between two calls, after a refresh() of a driver in dark mode with a
\* smaller window that found the flag set and rebuilt: the flag is clear
C28_Witness ==
    /\ pc = "idle"
    /\ firstPhase = "done"
    /\ ~disp.modeChanged
    /\ darkMode(disp)
    /\ disp.FIRST_ROW # 0
    /\ disp.display.seq = BuildSequence(disp)
    /\ disp.display.seq # <<>>

-----------------------------------------------------------------------------
(* Claims about the low-power switch of the Accelerometer *)

\* position i of the log starts a low-power write of value v: the write of
\* the power-save bit, the wait, and the read-modify-write of the
\* performance-mode bit with the negated value
LowPowerWriteAt(log, i, v) ==
    /\ i + 3 <= Len(log)
    /\ log[i] = Wr("_advPowerSave", v)
    /\ log[i + 1] = Sleep(450)
    /\ log[i + 2].op = "read" /\ log[i + 2].field = "_accPerfMode"
    /\ log[i + 3] = Wr("_accPerfMode", 1 - v)

\* C29: every write of lowPowerMode writes the advanced-power-save bit first,
\* then waits, then writes the performance-mode bit as the negation of the
\* value, with no other register write in between; afterwards the
\* lowPowerMode getter returns the value that was set.
C29_LowPowerWriteOrder ==
    /\ \A i \in 1..Len(acc.log) :
          /\ (acc.log[i].op = "write" /\ acc.log[i].field = "_advPowerSave")
                => LowPowerWriteAt(acc.log, i, acc.log[i].val)
          /\ (acc.log[i].op = "write" /\ acc.log[i].field = "_accPerfMode")
                => (i > 3 /\ LowPowerWriteAt(acc.log, i - 3, 1 - acc.log[i].val))
    /\ acc.call = "lowPowerMode" =>
          /\ Len(WritesOf(acc.log)) = 2
          /\ LowPowerWriteAt(acc.log, 2, acc.value)
          /\ lowPowerMode(acc.chip) <=> acc.value = 1

\* low-power mode was just switched on
C29_Witness ==
    /\ acc.call = "lowPowerMode"
    /\ acc.value = 1
    /\ LowPowerWriteAt(acc.log, 2, 1)
    /\ lowPowerMode(acc.chip)

-----------------------------------------------------------------------------
(* Claims about the refresh after the first one *)

\* a refresh() begins on a driver whose first refresh() has succeeded
LaterRefreshBegins == pc = "idle" /\ pc' = "retry" /\ firstPhase = "done"

\* C30: when the first successful refresh() clears initialRefresh it sets the
\* dirty flag, which stays set until the next refresh(), so that refresh()
\* rebuilds the sequence; if fastRefresh is on and fullRefresh off (and no
\* caller switched initialRefresh on again), the rebuilt sequence carries the
\* fast/partial mode byte and is applied with the 0.2 s frame delay.
C30_SecondRefreshIsFast ==
    [][ /\ (firstPhase = "pristine" /\ firstPhase' = "done")
              => (disp'.modeChanged /\ ~initialRefresh(disp'))
        /\ (pc = "idle" /\ pc' = "idle" /\ disp.modeChanged) => disp'.modeChanged
        /\ (LaterRefreshBegins /\ disp.modeChanged)
              => /\ disp'.display.calls = 1
                 /\ disp'.display.seq = BuildSequence(disp)
        /\ (LaterRefreshBegins /\ disp.modeChanged /\ fastRefresh(disp)
              /\ ~disp._fullRefresh /\ ~initialRefresh(disp))
              => /\ AllUpdateModes(disp'.display.seq, FAST_UPDATE)
                 /\ disp'.display.delay = FAST_UPDATE_TIME
      ]_vars

\* inside a refresh() after the first one, of a driver with fastRefresh on and
\* fullRefresh off: the sequence was rebuilt with the fast byte
C30_Witness ==
    /\ pc = "retry"
    /\ firstPhase = "done"
    /\ hwRefreshes = 0
    /\ disp.display.calls = 1
    /\ fastRefresh(disp) /\ ~disp._fullRefresh /\ ~initialRefresh(disp)
    /\ AllUpdateModes(disp.display.seq, FAST_UPDATE)
    /\ disp.display.delay = FAST_UPDATE_TIME

=============================================================================
